---- MODULE Spec2Model ----
(***************************************************************************)
(* State-machine model of the Sigenergy Modbus hub                         *)
(* (custom_components/sigen/modbus.py): connection management per          *)
(* (host, port) endpoint, register probing and the read-only write gate.   *)
(*                                                                         *)
(* The hub runs on one asyncio event loop: exactly one coroutine runs at   *)
(* a time and control changes hands only at an await that suspends.  The   *)
(* variable "running" names the coroutine that is executing; a suspended   *)
(* coroutine resumes only when no coroutine is running.                    *)
(***************************************************************************)
EXTENDS Integers, Sequences, FiniteSets, TLC

\* ------------------------------------------------------------------ bounds
NumTasks == 2          \* concurrently running callers of the hub
MaxCalls == 3          \* hub calls made in all
MaxClients == 3        \* clients created per endpoint

Tasks == 1..NumTasks
NoTask == 0

\* Connection keys (host, port) of the configured devices.
Endpoints == {"gw1", "gw2"}

\* device_info dicts: host/port (the key) and the slave id, which may be missing.
DeviceInfos ==
    { [ep |-> "gw1", slave |-> 1], [ep |-> "gw1", slave |-> 2],
      [ep |-> "gw2", slave |-> 1], [ep |-> "gw1", slave |-> 0] }
NoSlave == 0

\* ------------------------------------------------------- register catalog
\* Entries of INVERTER_PARAMETER_REGISTERS and INVERTER_RUNNING_INFO_REGISTERS.
\* A unit is the sequence of its characters; <<>> is "no unit".
RegisterDefs ==
    [ inverter_start_stop |->
        [address |-> 40500, count |-> 1, register_type |-> "wo",
         data_type |-> "u16", gain |-> 1, unit |-> <<>>],
      inverter_grid_code |->
        [address |-> 40501, count |-> 1, register_type |-> "rw",
         data_type |-> "u16", gain |-> 1, unit |-> <<>>],
      inverter_active_power_percentage_adjustment |->
        [address |-> 41505, count |-> 1, register_type |-> "rw",
         data_type |-> "s16", gain |-> 100, unit |-> <<"%">>],
      inverter_ess_average_cell_voltage |->
        [address |-> 30604, count |-> 1, register_type |-> "ro",
         data_type |-> "u16", gain |-> 1000, unit |-> <<"V">>] ]

RegisterNames == DOMAIN RegisterDefs

INVERTER_PARAMETER_REGISTERS ==
    {"inverter_start_stop", "inverter_grid_code",
     "inverter_active_power_percentage_adjustment"}
INVERTER_RUNNING_INFO_REGISTERS == {"inverter_ess_average_cell_voltage"}

\* The register_defs argument of a probe: one of the catalog tables.
Catalogs == {"parameter", "running_info"}
CatalogRegisters(c) ==
    IF c = "parameter" THEN INVERTER_PARAMETER_REGISTERS
    ELSE INVERTER_RUNNING_INFO_REGISTERS

\* Every entry of the eight catalog tables: the table, the name, and the
\* address, count, register_type, data_type and gain of the definition.
CatalogRows ==
    {
      <<"PLANT_RUNNING_INFO_REGISTERS", "plant_system_time", 30000, 2, "ro", "u32", 1>>,
      <<"PLANT_RUNNING_INFO_REGISTERS", "plant_system_timezone", 30002, 1, "ro", "s16", 1>>,
      <<"PLANT_RUNNING_INFO_REGISTERS", "plant_ems_work_mode", 30003, 1, "ro", "u16", 1>>,
      <<"PLANT_RUNNING_INFO_REGISTERS", "plant_grid_sensor_status", 30004, 1, "ro", "u16", 1>>,
      <<"PLANT_RUNNING_INFO_REGISTERS", "plant_grid_sensor_active_power", 30005, 2, "ro", "s32", 1000>>,
      <<"PLANT_RUNNING_INFO_REGISTERS", "plant_grid_sensor_reactive_power", 30007, 2, "ro", "s32", 1000>>,
      <<"PLANT_RUNNING_INFO_REGISTERS", "plant_on_off_grid_status", 30009, 1, "ro", "u16", 1>>,
      <<"PLANT_RUNNING_INFO_REGISTERS", "plant_max_active_power", 30010, 2, "ro", "u32", 1000>>,
      <<"PLANT_RUNNING_INFO_REGISTERS", "plant_max_apparent_power", 30012, 2, "ro", "u32", 1000>>,
      <<"PLANT_RUNNING_INFO_REGISTERS", "plant_ess_soc", 30014, 1, "ro", "u16", 10>>,
      <<"PLANT_RUNNING_INFO_REGISTERS", "plant_phase_a_active_power", 30015, 2, "ro", "s32", 1000>>,
      <<"PLANT_RUNNING_INFO_REGISTERS", "plant_phase_b_active_power", 30017, 2, "ro", "s32", 1000>>,
      <<"PLANT_RUNNING_INFO_REGISTERS", "plant_phase_c_active_power", 30019, 2, "ro", "s32", 1000>>,
      <<"PLANT_RUNNING_INFO_REGISTERS", "plant_phase_a_reactive_power", 30021, 2, "ro", "s32", 1000>>,
      <<"PLANT_RUNNING_INFO_REGISTERS", "plant_phase_b_reactive_power", 30023, 2, "ro", "s32", 1000>>,
      <<"PLANT_RUNNING_INFO_REGISTERS", "plant_phase_c_reactive_power", 30025, 2, "ro", "s32", 1000>>,
      <<"PLANT_RUNNING_INFO_REGISTERS", "plant_general_alarm1", 30027, 1, "ro", "u16", 1>>,
      <<"PLANT_RUNNING_INFO_REGISTERS", "plant_general_alarm2", 30028, 1, "ro", "u16", 1>>,
      <<"PLANT_RUNNING_INFO_REGISTERS", "plant_general_alarm3", 30029, 1, "ro", "u16", 1>>,
      <<"PLANT_RUNNING_INFO_REGISTERS", "plant_general_alarm4", 30030, 1, "ro", "u16", 1>>,
      <<"PLANT_RUNNING_INFO_REGISTERS", "plant_active_power", 30031, 2, "ro", "s32", 1000>>,
      <<"PLANT_RUNNING_INFO_REGISTERS", "plant_reactive_power", 30033, 2, "ro", "s32", 1000>>,
      <<"PLANT_RUNNING_INFO_REGISTERS", "plant_photovoltaic_power", 30035, 2, "ro", "s32", 1000>>,
      <<"PLANT_RUNNING_INFO_REGISTERS", "plant_ess_power", 30037, 2, "ro", "s32", 1000>>,
      <<"PLANT_RUNNING_INFO_REGISTERS", "plant_available_max_active_power", 30039, 2, "ro", "u32", 1000>>,
      <<"PLANT_RUNNING_INFO_REGISTERS", "plant_available_min_active_power", 30041, 2, "ro", "u32", 1000>>,
      <<"PLANT_RUNNING_INFO_REGISTERS", "plant_available_max_reactive_power", 30043, 2, "ro", "u32", 1000>>,
      <<"PLANT_RUNNING_INFO_REGISTERS", "plant_available_min_reactive_power", 30045, 2, "ro", "u32", 1000>>,
      <<"PLANT_RUNNING_INFO_REGISTERS", "plant_ess_available_max_charging_power", 30047, 2, "ro", "u32", 1000>>,
      <<"PLANT_RUNNING_INFO_REGISTERS", "plant_ess_available_max_discharging_power", 30049, 2, "ro", "u32", 1000>>,
      <<"PLANT_RUNNING_INFO_REGISTERS", "plant_running_state", 30051, 1, "ro", "u16", 1>>,
      <<"PLANT_RUNNING_INFO_REGISTERS", "plant_grid_sensor_phase_a_active_power", 30052, 2, "ro", "s32", 1000>>,
      <<"PLANT_RUNNING_INFO_REGISTERS", "plant_grid_sensor_phase_b_active_power", 30054, 2, "ro", "s32", 1000>>,
      <<"PLANT_RUNNING_INFO_REGISTERS", "plant_grid_sensor_phase_c_active_power", 30056, 2, "ro", "s32", 1000>>,
      <<"PLANT_RUNNING_INFO_REGISTERS", "plant_grid_sensor_phase_a_reactive_power", 30058, 2, "ro", "s32", 1000>>,
      <<"PLANT_RUNNING_INFO_REGISTERS", "plant_grid_sensor_phase_b_reactive_power", 30060, 2, "ro", "s32", 1000>>,
      <<"PLANT_RUNNING_INFO_REGISTERS", "plant_grid_sensor_phase_c_reactive_power", 30062, 2, "ro", "s32", 1000>>,
      <<"PLANT_RUNNING_INFO_REGISTERS", "plant_ess_available_max_charging_capacity", 30064, 2, "ro", "u32", 100>>,
      <<"PLANT_RUNNING_INFO_REGISTERS", "plant_ess_available_max_discharging_capacity", 30066, 2, "ro", "u32", 100>>,
      <<"PLANT_RUNNING_INFO_REGISTERS", "plant_ess_rated_charging_power", 30068, 2, "ro", "u32", 1000>>,
      <<"PLANT_RUNNING_INFO_REGISTERS", "plant_ess_rated_discharging_power", 30070, 2, "ro", "u32", 1000>>,
      <<"PLANT_RUNNING_INFO_REGISTERS", "plant_general_alarm5", 30072, 1, "ro", "u16", 1>>,
      <<"PLANT_RUNNING_INFO_REGISTERS", "plant_ess_rated_energy_capacity", 30083, 2, "ro", "u32", 100>>,
      <<"PLANT_RUNNING_INFO_REGISTERS", "plant_ess_charge_cut_off_soc", 30085, 1, "ro", "u16", 10>>,
      <<"PLANT_RUNNING_INFO_REGISTERS", "plant_ess_discharge_cut_off_soc", 30086, 1, "ro", "u16", 10>>,
      <<"PLANT_RUNNING_INFO_REGISTERS", "plant_ess_soh", 30087, 1, "ro", "u16", 10>>,
      <<"PLANT_PARAMETER_REGISTERS", "plant_start_stop", 40000, 1, "wo", "u16", 1>>,
      <<"PLANT_PARAMETER_REGISTERS", "plant_active_power_fixed_target", 40001, 2, "rw", "s32", 1000>>,
      <<"PLANT_PARAMETER_REGISTERS", "plant_reactive_power_fixed_target", 40003, 2, "rw", "s32", 1000>>,
      <<"PLANT_PARAMETER_REGISTERS", "plant_active_power_percentage_target", 40005, 1, "rw", "s16", 100>>,
      <<"PLANT_PARAMETER_REGISTERS", "plant_qs_ratio_target", 40006, 1, "rw", "s16", 100>>,
      <<"PLANT_PARAMETER_REGISTERS", "plant_power_factor_target", 40007, 1, "rw", "s16", 1000>>,
      <<"PLANT_PARAMETER_REGISTERS", "plant_phase_a_active_power_fixed_target", 40008, 2, "rw", "s32", 1000>>,
      <<"PLANT_PARAMETER_REGISTERS", "plant_phase_b_active_power_fixed_target", 40010, 2, "rw", "s32", 1000>>,
      <<"PLANT_PARAMETER_REGISTERS", "plant_phase_c_active_power_fixed_target", 40012, 2, "rw", "s32", 1000>>,
      <<"PLANT_PARAMETER_REGISTERS", "plant_phase_a_reactive_power_fixed_target", 40014, 2, "rw", "s32", 1000>>,
      <<"PLANT_PARAMETER_REGISTERS", "plant_phase_b_reactive_power_fixed_target", 40016, 2, "rw", "s32", 1000>>,
      <<"PLANT_PARAMETER_REGISTERS", "plant_phase_c_reactive_power_fixed_target", 40018, 2, "rw", "s32", 1000>>,
      <<"PLANT_PARAMETER_REGISTERS", "plant_phase_a_active_power_percentage_target", 40020, 1, "rw", "s16", 100>>,
      <<"PLANT_PARAMETER_REGISTERS", "plant_phase_b_active_power_percentage_target", 40021, 1, "rw", "s16", 100>>,
      <<"PLANT_PARAMETER_REGISTERS", "plant_phase_c_active_power_percentage_target", 40022, 1, "rw", "s16", 100>>,
      <<"PLANT_PARAMETER_REGISTERS", "plant_phase_a_qs_ratio_target", 40023, 1, "rw", "s16", 100>>,
      <<"PLANT_PARAMETER_REGISTERS", "plant_phase_b_qs_ratio_target", 40024, 1, "rw", "s16", 100>>,
      <<"PLANT_PARAMETER_REGISTERS", "plant_phase_c_qs_ratio_target", 40025, 1, "rw", "s16", 100>>,
      <<"PLANT_PARAMETER_REGISTERS", "plant_remote_ems_enable", 40029, 1, "rw", "u16", 1>>,
      <<"PLANT_PARAMETER_REGISTERS", "plant_independent_phase_power_control_enable", 40030, 1, "rw", "u16", 1>>,
      <<"PLANT_PARAMETER_REGISTERS", "plant_remote_ems_control_mode", 40031, 1, "rw", "u16", 1>>,
      <<"PLANT_PARAMETER_REGISTERS", "plant_ess_max_charging_limit", 40032, 2, "rw", "u32", 1000>>,
      <<"PLANT_PARAMETER_REGISTERS", "plant_ess_max_discharging_limit", 40034, 2, "rw", "u32", 1000>>,
      <<"PLANT_PARAMETER_REGISTERS", "plant_pv_max_power_limit", 40036, 2, "rw", "u32", 1000>>,
      <<"PLANT_PARAMETER_REGISTERS", "plant_grid_point_maximum_export_limitation", 40038, 2, "rw", "u32", 1000>>,
      <<"PLANT_PARAMETER_REGISTERS", "plant_grid_maximum_import_limitation", 40040, 2, "rw", "u32", 1000>>,
      <<"PLANT_PARAMETER_REGISTERS", "plant_pcs_maximum_export_limitation", 40042, 2, "rw", "u32", 1000>>,
      <<"PLANT_PARAMETER_REGISTERS", "plant_pcs_maximum_import_limitation", 40044, 2, "rw", "u32", 1000>>,
      <<"INVERTER_RUNNING_INFO_REGISTERS", "inverter_model_type", 30500, 15, "ro", "string", 1>>,
      <<"INVERTER_RUNNING_INFO_REGISTERS", "inverter_serial_number", 30515, 10, "ro", "string", 1>>,
      <<"INVERTER_RUNNING_INFO_REGISTERS", "inverter_machine_firmware_version", 30525, 15, "ro", "string", 1>>,
      <<"INVERTER_RUNNING_INFO_REGISTERS", "inverter_rated_active_power", 30540, 2, "ro", "u32", 1000>>,
      <<"INVERTER_RUNNING_INFO_REGISTERS", "inverter_max_apparent_power", 30542, 2, "ro", "u32", 1000>>,
      <<"INVERTER_RUNNING_INFO_REGISTERS", "inverter_max_active_power", 30544, 2, "ro", "u32", 1000>>,
      <<"INVERTER_RUNNING_INFO_REGISTERS", "inverter_max_absorption_power", 30546, 2, "ro", "u32", 1000>>,
      <<"INVERTER_RUNNING_INFO_REGISTERS", "inverter_rated_battery_capacity", 30548, 2, "ro", "u32", 100>>,
      <<"INVERTER_RUNNING_INFO_REGISTERS", "inverter_ess_rated_charge_power", 30550, 2, "ro", "u32", 1000>>,
      <<"INVERTER_RUNNING_INFO_REGISTERS", "inverter_ess_rated_discharge_power", 30552, 2, "ro", "u32", 1000>>,
      <<"INVERTER_RUNNING_INFO_REGISTERS", "inverter_ess_daily_charge_energy", 30566, 2, "ro", "u32", 100>>,
      <<"INVERTER_RUNNING_INFO_REGISTERS", "inverter_ess_accumulated_charge_energy", 30568, 4, "ro", "u64", 100>>,
      <<"INVERTER_RUNNING_INFO_REGISTERS", "inverter_ess_daily_discharge_energy", 30572, 2, "ro", "u32", 100>>,
      <<"INVERTER_RUNNING_INFO_REGISTERS", "inverter_ess_accumulated_discharge_energy", 30574, 4, "ro", "u64", 100>>,
      <<"INVERTER_RUNNING_INFO_REGISTERS", "inverter_running_state", 30578, 1, "ro", "u16", 1>>,
      <<"INVERTER_RUNNING_INFO_REGISTERS", "inverter_max_active_power_adjustment_value", 30579, 2, "ro", "s32", 1000>>,
      <<"INVERTER_RUNNING_INFO_REGISTERS", "inverter_min_active_power_adjustment_value", 30581, 2, "ro", "s32", 1000>>,
      <<"INVERTER_RUNNING_INFO_REGISTERS", "inverter_max_reactive_power_adjustment_value_fed", 30583, 2, "ro", "u32", 1000>>,
      <<"INVERTER_RUNNING_INFO_REGISTERS", "inverter_max_reactive_power_adjustment_value_absorbed", 30585, 2, "ro", "u32", 1000>>,
      <<"INVERTER_RUNNING_INFO_REGISTERS", "inverter_active_power", 30587, 2, "ro", "s32", 1000>>,
      <<"INVERTER_RUNNING_INFO_REGISTERS", "inverter_reactive_power", 30589, 2, "ro", "s32", 1000>>,
      <<"INVERTER_RUNNING_INFO_REGISTERS", "inverter_ess_max_battery_charge_power", 30591, 2, "ro", "u32", 1000>>,
      <<"INVERTER_RUNNING_INFO_REGISTERS", "inverter_ess_max_battery_discharge_power", 30593, 2, "ro", "u32", 1000>>,
      <<"INVERTER_RUNNING_INFO_REGISTERS", "inverter_ess_available_battery_charge_energy", 30595, 2, "ro", "u32", 100>>,
      <<"INVERTER_RUNNING_INFO_REGISTERS", "inverter_ess_available_battery_discharge_energy", 30597, 2, "ro", "u32", 100>>,
      <<"INVERTER_RUNNING_INFO_REGISTERS", "inverter_ess_charge_discharge_power", 30599, 2, "ro", "s32", 1000>>,
      <<"INVERTER_RUNNING_INFO_REGISTERS", "inverter_ess_battery_soc", 30601, 1, "ro", "u16", 10>>,
      <<"INVERTER_RUNNING_INFO_REGISTERS", "inverter_ess_battery_soh", 30602, 1, "ro", "u16", 10>>,
      <<"INVERTER_RUNNING_INFO_REGISTERS", "inverter_ess_average_cell_temperature", 30603, 1, "ro", "s16", 10>>,
      <<"INVERTER_RUNNING_INFO_REGISTERS", "inverter_ess_average_cell_voltage", 30604, 1, "ro", "u16", 1000>>,
      <<"INVERTER_RUNNING_INFO_REGISTERS", "inverter_alarm1", 30605, 1, "ro", "u16", 1>>,
      <<"INVERTER_RUNNING_INFO_REGISTERS", "inverter_alarm2", 30606, 1, "ro", "u16", 1>>,
      <<"INVERTER_RUNNING_INFO_REGISTERS", "inverter_alarm3", 30607, 1, "ro", "u16", 1>>,
      <<"INVERTER_RUNNING_INFO_REGISTERS", "inverter_alarm4", 30608, 1, "ro", "u16", 1>>,
      <<"INVERTER_RUNNING_INFO_REGISTERS", "inverter_alarm5", 30609, 1, "ro", "u16", 1>>,
      <<"INVERTER_RUNNING_INFO_REGISTERS", "inverter_ess_maximum_battery_temperature", 30620, 1, "ro", "s16", 10>>,
      <<"INVERTER_RUNNING_INFO_REGISTERS", "inverter_ess_minimum_battery_temperature", 30621, 1, "ro", "s16", 10>>,
      <<"INVERTER_RUNNING_INFO_REGISTERS", "inverter_ess_maximum_battery_cell_voltage", 30622, 1, "ro", "u16", 1000>>,
      <<"INVERTER_RUNNING_INFO_REGISTERS", "inverter_ess_minimum_battery_cell_voltage", 30623, 1, "ro", "u16", 1000>>,
      <<"INVERTER_RUNNING_INFO_REGISTERS", "inverter_rated_grid_voltage", 31000, 1, "ro", "u16", 10>>,
      <<"INVERTER_RUNNING_INFO_REGISTERS", "inverter_rated_grid_frequency", 31001, 1, "ro", "u16", 100>>,
      <<"INVERTER_RUNNING_INFO_REGISTERS", "inverter_grid_frequency", 31002, 1, "ro", "u16", 100>>,
      <<"INVERTER_RUNNING_INFO_REGISTERS", "inverter_pcs_internal_temperature", 31003, 1, "ro", "s16", 10>>,
      <<"INVERTER_RUNNING_INFO_REGISTERS", "inverter_output_type", 31004, 1, "ro", "u16", 1>>,
      <<"INVERTER_RUNNING_INFO_REGISTERS", "inverter_ab_line_voltage", 31005, 2, "ro", "u32", 100>>,
      <<"INVERTER_RUNNING_INFO_REGISTERS", "inverter_bc_line_voltage", 31007, 2, "ro", "u32", 100>>,
      <<"INVERTER_RUNNING_INFO_REGISTERS", "inverter_ca_line_voltage", 31009, 2, "ro", "u32", 100>>,
      <<"INVERTER_RUNNING_INFO_REGISTERS", "inverter_phase_a_voltage", 31011, 2, "ro", "u32", 100>>,
      <<"INVERTER_RUNNING_INFO_REGISTERS", "inverter_phase_b_voltage", 31013, 2, "ro", "u32", 100>>,
      <<"INVERTER_RUNNING_INFO_REGISTERS", "inverter_phase_c_voltage", 31015, 2, "ro", "u32", 100>>,
      <<"INVERTER_RUNNING_INFO_REGISTERS", "inverter_phase_a_current", 31017, 2, "ro", "s32", 100>>,
      <<"INVERTER_RUNNING_INFO_REGISTERS", "inverter_phase_b_current", 31019, 2, "ro", "s32", 100>>,
      <<"INVERTER_RUNNING_INFO_REGISTERS", "inverter_phase_c_current", 31021, 2, "ro", "s32", 100>>,
      <<"INVERTER_RUNNING_INFO_REGISTERS", "inverter_power_factor", 31023, 1, "ro", "u16", 1000>>,
      <<"INVERTER_RUNNING_INFO_REGISTERS", "inverter_pack_count", 31024, 1, "ro", "u16", 1>>,
      <<"INVERTER_RUNNING_INFO_REGISTERS", "inverter_pv_string_count", 31025, 1, "ro", "u16", 1>>,
      <<"INVERTER_RUNNING_INFO_REGISTERS", "inverter_mppt_count", 31026, 1, "ro", "u16", 1>>,
      <<"INVERTER_RUNNING_INFO_REGISTERS", "inverter_pv1_voltage", 31027, 1, "ro", "s16", 10>>,
      <<"INVERTER_RUNNING_INFO_REGISTERS", "inverter_pv1_current", 31028, 1, "ro", "s16", 100>>,
      <<"INVERTER_RUNNING_INFO_REGISTERS", "inverter_pv2_voltage", 31029, 1, "ro", "s16", 10>>,
      <<"INVERTER_RUNNING_INFO_REGISTERS", "inverter_pv2_current", 31030, 1, "ro", "s16", 100>>,
      <<"INVERTER_RUNNING_INFO_REGISTERS", "inverter_pv3_voltage", 31031, 1, "ro", "s16", 10>>,
      <<"INVERTER_RUNNING_INFO_REGISTERS", "inverter_pv3_current", 31032, 1, "ro", "s16", 100>>,
      <<"INVERTER_RUNNING_INFO_REGISTERS", "inverter_pv4_voltage", 31033, 1, "ro", "s16", 10>>,
      <<"INVERTER_RUNNING_INFO_REGISTERS", "inverter_pv4_current", 31034, 1, "ro", "s16", 100>>,
      <<"INVERTER_RUNNING_INFO_REGISTERS", "inverter_pv_power", 31035, 2, "ro", "s32", 1000>>,
      <<"INVERTER_RUNNING_INFO_REGISTERS", "inverter_insulation_resistance", 31037, 1, "ro", "u16", 1000>>,
      <<"INVERTER_RUNNING_INFO_REGISTERS", "inverter_startup_time", 31038, 2, "ro", "u32", 1>>,
      <<"INVERTER_RUNNING_INFO_REGISTERS", "inverter_shutdown_time", 31040, 2, "ro", "u32", 1>>,
      <<"INVERTER_RUNNING_INFO_REGISTERS", "inverter_pv5_voltage", 31042, 1, "ro", "s16", 10>>,
      <<"INVERTER_RUNNING_INFO_REGISTERS", "inverter_pv5_current", 31043, 1, "ro", "s16", 100>>,
      <<"INVERTER_RUNNING_INFO_REGISTERS", "inverter_pv6_voltage", 31044, 1, "ro", "s16", 10>>,
      <<"INVERTER_RUNNING_INFO_REGISTERS", "inverter_pv6_current", 31045, 1, "ro", "s16", 100>>,
      <<"INVERTER_RUNNING_INFO_REGISTERS", "inverter_pv7_voltage", 31046, 1, "ro", "s16", 10>>,
      <<"INVERTER_RUNNING_INFO_REGISTERS", "inverter_pv7_current", 31047, 1, "ro", "s16", 100>>,
      <<"INVERTER_RUNNING_INFO_REGISTERS", "inverter_pv8_voltage", 31048, 1, "ro", "s16", 10>>,
      <<"INVERTER_RUNNING_INFO_REGISTERS", "inverter_pv8_current", 31049, 1, "ro", "s16", 100>>,
      <<"INVERTER_RUNNING_INFO_REGISTERS", "inverter_pv9_voltage", 31050, 1, "ro", "s16", 10>>,
      <<"INVERTER_RUNNING_INFO_REGISTERS", "inverter_pv9_current", 31051, 1, "ro", "s16", 100>>,
      <<"INVERTER_RUNNING_INFO_REGISTERS", "inverter_pv10_voltage", 31052, 1, "ro", "s16", 10>>,
      <<"INVERTER_RUNNING_INFO_REGISTERS", "inverter_pv10_current", 31053, 1, "ro", "s16", 100>>,
      <<"INVERTER_RUNNING_INFO_REGISTERS", "inverter_pv11_voltage", 31054, 1, "ro", "s16", 10>>,
      <<"INVERTER_RUNNING_INFO_REGISTERS", "inverter_pv11_current", 31055, 1, "ro", "s16", 100>>,
      <<"INVERTER_RUNNING_INFO_REGISTERS", "inverter_pv12_voltage", 31056, 1, "ro", "s16", 10>>,
      <<"INVERTER_RUNNING_INFO_REGISTERS", "inverter_pv12_current", 31057, 1, "ro", "s16", 100>>,
      <<"INVERTER_RUNNING_INFO_REGISTERS", "inverter_pv13_voltage", 31058, 1, "ro", "s16", 10>>,
      <<"INVERTER_RUNNING_INFO_REGISTERS", "inverter_pv13_current", 31059, 1, "ro", "s16", 100>>,
      <<"INVERTER_RUNNING_INFO_REGISTERS", "inverter_pv14_voltage", 31060, 1, "ro", "s16", 10>>,
      <<"INVERTER_RUNNING_INFO_REGISTERS", "inverter_pv14_current", 31061, 1, "ro", "s16", 100>>,
      <<"INVERTER_RUNNING_INFO_REGISTERS", "inverter_pv15_voltage", 31062, 1, "ro", "s16", 10>>,
      <<"INVERTER_RUNNING_INFO_REGISTERS", "inverter_pv15_current", 31063, 1, "ro", "s16", 100>>,
      <<"INVERTER_RUNNING_INFO_REGISTERS", "inverter_pv16_voltage", 31064, 1, "ro", "s16", 10>>,
      <<"INVERTER_RUNNING_INFO_REGISTERS", "inverter_pv16_current", 31065, 1, "ro", "s16", 100>>,
      <<"INVERTER_PARAMETER_REGISTERS", "inverter_start_stop", 40500, 1, "wo", "u16", 1>>,
      <<"INVERTER_PARAMETER_REGISTERS", "inverter_grid_code", 40501, 1, "rw", "u16", 1>>,
      <<"INVERTER_PARAMETER_REGISTERS", "inverter_remote_ems_dispatch_enable", 41500, 1, "rw", "u16", 1>>,
      <<"INVERTER_PARAMETER_REGISTERS", "inverter_active_power_fixed_adjustment", 41501, 2, "rw", "s32", 1000>>,
      <<"INVERTER_PARAMETER_REGISTERS", "inverter_reactive_power_fixed_adjustment", 41503, 2, "rw", "s32", 1000>>,
      <<"INVERTER_PARAMETER_REGISTERS", "inverter_active_power_percentage_adjustment", 41505, 1, "rw", "s16", 100>>,
      <<"INVERTER_PARAMETER_REGISTERS", "inverter_reactive_power_qs_adjustment", 41506, 1, "rw", "s16", 100>>,
      <<"INVERTER_PARAMETER_REGISTERS", "inverter_power_factor_adjustment", 41507, 1, "rw", "s16", 1000>>,
      <<"AC_CHARGER_RUNNING_INFO_REGISTERS", "ac_charger_system_state", 32000, 1, "ro", "u16", 1>>,
      <<"AC_CHARGER_RUNNING_INFO_REGISTERS", "ac_charger_total_energy_consumed", 32001, 2, "ro", "u32", 100>>,
      <<"AC_CHARGER_RUNNING_INFO_REGISTERS", "ac_charger_charging_power", 32003, 2, "ro", "s32", 1000>>,
      <<"AC_CHARGER_RUNNING_INFO_REGISTERS", "ac_charger_rated_power", 32005, 2, "ro", "u32", 1000>>,
      <<"AC_CHARGER_RUNNING_INFO_REGISTERS", "ac_charger_rated_current", 32007, 2, "ro", "s32", 100>>,
      <<"AC_CHARGER_RUNNING_INFO_REGISTERS", "ac_charger_rated_voltage", 32009, 1, "ro", "u16", 10>>,
      <<"AC_CHARGER_RUNNING_INFO_REGISTERS", "ac_charger_input_breaker_rated_current", 32010, 2, "ro", "s32", 100>>,
      <<"AC_CHARGER_RUNNING_INFO_REGISTERS", "ac_charger_alarm1", 32012, 1, "ro", "u16", 1>>,
      <<"AC_CHARGER_RUNNING_INFO_REGISTERS", "ac_charger_alarm2", 32013, 1, "ro", "u16", 1>>,
      <<"AC_CHARGER_RUNNING_INFO_REGISTERS", "ac_charger_alarm3", 32014, 1, "ro", "u16", 1>>,
      <<"AC_CHARGER_PARAMETER_REGISTERS", "ac_charger_start_stop", 42000, 1, "wo", "u16", 1>>,
      <<"AC_CHARGER_PARAMETER_REGISTERS", "ac_charger_output_current", 42001, 2, "rw", "u32", 100>>,
      <<"DC_CHARGER_RUNNING_INFO_REGISTERS", "dc_charger_vehicle_battery_voltage", 31500, 1, "ro", "u16", 10>>,
      <<"DC_CHARGER_RUNNING_INFO_REGISTERS", "dc_charger_charging_current", 31501, 1, "ro", "u16", 10>>,
      <<"DC_CHARGER_RUNNING_INFO_REGISTERS", "dc_charger_output_power", 31502, 2, "ro", "s32", 1000>>,
      <<"DC_CHARGER_RUNNING_INFO_REGISTERS", "dc_charger_vehicle_soc", 31504, 1, "ro", "u16", 10>>,
      <<"DC_CHARGER_RUNNING_INFO_REGISTERS", "dc_charger_current_charging_capacity", 31505, 2, "ro", "u32", 100>>,
      <<"DC_CHARGER_RUNNING_INFO_REGISTERS", "dc_charger_current_charging_duration", 31507, 2, "ro", "u32", 1>>,
      <<"DC_CHARGER_PARAMETER_REGISTERS", "dc_charger_start_stop", 41000, 1, "wo", "u16", 1>>
    }

ModbusRegisterDefinitionOneWord(row) ==
    [table |-> row[1], name |-> row[2], address |-> row[3], count |-> 1,
     register_type |-> row[5], data_type |-> row[6], gain |-> row[7]]
ModbusRegisterDefinition(row) ==
    [table |-> row[1], name |-> row[2], address |-> row[3], count |-> row[4],
     register_type |-> row[5], data_type |-> row[6], gain |-> row[7]]

AllRegisterDefinitions == {ModbusRegisterDefinition(row) : row \in CatalogRows}

CatalogTables ==
    {"PLANT_RUNNING_INFO_REGISTERS", "PLANT_PARAMETER_REGISTERS",
     "INVERTER_RUNNING_INFO_REGISTERS", "INVERTER_PARAMETER_REGISTERS",
     "AC_CHARGER_RUNNING_INFO_REGISTERS", "AC_CHARGER_PARAMETER_REGISTERS",
     "DC_CHARGER_RUNNING_INFO_REGISTERS", "DC_CHARGER_PARAMETER_REGISTERS"}

\* ---------------------------------------------------------------- integers
\* Python integers are unbounded.  One is held as its sign and the digits of
\* its magnitude in base 65536, most significant first and without leading
\* zeros; zero is the empty sequence of digits, without sign.
RECURSIVE Norm(_)
Norm(digits) ==
    IF digits # <<>> /\ Head(digits) = 0 THEN Norm(Tail(digits)) ELSE digits

PyNat(digits) == [neg |-> FALSE, mag |-> Norm(digits)]
PyNeg(digits) == [neg |-> Norm(digits) # <<>>, mag |-> Norm(digits)]

\* The digits of 2^(16 n) - m for the n digits of m, m > 0.
RECURSIVE Complement(_)
Complement(digits) ==
    IF digits = <<>> THEN <<>>
    ELSE LET n == Len(digits)
             front == SubSeq(digits, 1, n - 1)
         IN  IF digits[n] = 0
             THEN Append(Complement(front), 0)
             ELSE Append([i \in 1..(n - 1) |-> 65535 - front[i]],
                         65536 - digits[n])

\* (val >> (16 * k)) & 0xFFFF on a Python integer: word k of its two's
\* complement form, which for a negative integer goes on in 0xFFFF words.
Word(val, k) ==
    LET n == Len(val.mag)
        width == IF n > k THEN n ELSE k + 1
        padded == [i \in 1..width |->
                      IF i <= width - n THEN 0 ELSE val.mag[i - (width - n)]]
        digits == IF val.neg THEN Complement(padded) ELSE padded
    IN  digits[width - k]

\* ------------------------------------------------------------ value codec
\* A Python str is held as the sequence of its code points.
PyStr(chars) == [str |-> chars]

\* str.rstrip("\x00")
RECURSIVE RStripNul(_)
RStripNul(chars) ==
    IF chars # <<>> /\ chars[Len(chars)] = 0
    THEN RStripNul(SubSeq(chars, 1, Len(chars) - 1))
    ELSE chars

\* The characters convert_from_registers collects from the words of a
\* string: the high byte of a word, then its low byte, a zero byte left out.
RECURSIVE StringChars(_)
StringChars(registers) ==
    IF registers = <<>> THEN <<>>
    ELSE LET reg == Head(registers)
             high_byte == (reg \div 256) % 256
             low_byte == reg % 256
         IN  (IF high_byte > 0 THEN <<high_byte>> ELSE <<>>)
             \o (IF low_byte > 0 THEN <<low_byte>> ELSE <<>>)
             \o StringChars(Tail(registers))

\* str.encode("utf-8") for code points below 0x800.
RECURSIVE Utf8(_)
Utf8(chars) ==
    IF chars = <<>> THEN <<>>
    ELSE LET c == Head(chars)
         IN  (IF c < 128 THEN <<c>>
              ELSE <<192 + (c \div 64), 128 + (c % 64)>>)
             \o Utf8(Tail(chars))

\* ModbusClientMixin.convert_from_registers for the integer data types, on
\* the 16-bit words of a response.
convert_from_registers_unsigned(registers, data_type) == PyNat(registers)
convert_from_registers(registers, data_type) ==
    IF registers = <<>> THEN PyNat(<<>>)
    ELSE CASE data_type = "u16" -> PyNat(<<registers[1] % 65536>>)
           [] data_type = "s16" ->
                LET val == registers[1] % 65536
                IN  IF val < 32768 THEN PyNat(<<val>>)
                    ELSE PyNeg(<<65536 - val>>)
           [] data_type = "u32" ->
                IF Len(registers) >= 2
                THEN PyNat(<<registers[1], registers[2]>>)
                ELSE PyNat(<<registers[1]>>)
           [] data_type = "s32" ->
                IF Len(registers) >= 2
                THEN \* val < 2147483648 exactly when the high word is < 2^15
                     IF registers[1] < 32768
                     THEN PyNat(<<registers[1], registers[2]>>)
                     ELSE PyNeg(Complement(<<registers[1], registers[2]>>))
                ELSE PyNat(<<registers[1]>>)
           [] data_type = "u64" ->
                IF Len(registers) >= 4
                THEN PyNat(<<registers[1], registers[2],
                             registers[3], registers[4]>>)
                ELSE PyNat(<<registers[1]>>)
           [] data_type = "string" ->
                PyStr(RStripNul(StringChars(registers)))
           [] OTHER -> PyNat(<<registers[1]>>)

\* BinaryPayloadBuilder: the words each add_* method appends.  Adding
\* 0x10000 or 0x100000000 to a negative value leaves the words that are
\* masked out afterwards as they are in two's complement.
add_16bit_uint(value) == <<Word(value, 0)>>
add_16bit_int(value) == <<Word(value, 0)>>
add_32bit_uint_swapped(value) == <<Word(value, 0), Word(value, 1)>>
add_32bit_uint(value) == <<Word(value, 1), Word(value, 0)>>
add_32bit_int(value) == <<Word(value, 1), Word(value, 0)>>
add_64bit_uint(value) ==
    <<Word(value, 3), Word(value, 2), Word(value, 1), Word(value, 0)>>

\* add_string: two bytes to a word, the first one high; a last byte without
\* a partner gets a zero low byte.
RECURSIVE PackBytes(_)
PackBytes(string_bytes) ==
    IF string_bytes = <<>> THEN <<>>
    ELSE IF Len(string_bytes) = 1 THEN <<string_bytes[1] * 256>>
    ELSE <<string_bytes[1] * 256 + string_bytes[2]>>
         \o PackBytes(SubSeq(string_bytes, 3, Len(string_bytes)))

add_string(value) == PackBytes(Utf8(value.str))

\* to_registers() of a builder that was given one value of the data type.
to_registers(data_type, value) ==
    CASE data_type = "u16" -> add_16bit_uint(value)
      [] data_type = "s16" -> add_16bit_int(value)
      [] data_type = "u32" -> add_32bit_uint(value)
      [] data_type = "s32" -> add_32bit_int(value)
      [] data_type = "u64" -> add_64bit_uint(value)
      [] data_type = "string" -> add_string(value)

\* ------------------------------------------------------ probe validation
\* str.lower() on the characters that occur in the catalog's units.
Lower(ch) ==
    CASE ch = "V" -> "v" [] ch = "A" -> "a" [] ch = "W" -> "w"
      [] ch = "C" -> "c" [] ch = "H" -> "h" [] ch = "K" -> "k"
      [] OTHER -> ch
LowerUnit(unit) == [i \in 1..Len(unit) |-> Lower(unit[i])]

\* Python's "sub in unit" on character sequences.
Contains(unit, sub) ==
    \E i \in 0..(Len(unit) - Len(sub)) :
        \A j \in 1..Len(sub) : unit[i + j] = sub[j]
ContainsAny(unit, subs) == \E sub \in subs : Contains(unit, sub)

\* The branch of the unit chain of _validate_register_response that is taken.
UnitClass(unit) ==
    LET u == LowerUnit(unit)
    IN  IF unit = <<>> THEN "none"
        ELSE IF ContainsAny(u, {<<"v">>, <<"v","o","l","t">>}) THEN "voltage"
        ELSE IF ContainsAny(u, {<<"a">>, <<"a","m","p">>}) THEN "current"
        ELSE IF ContainsAny(u, {<<"w","h">>, <<"k","w","h">>}) THEN "energy"
        ELSE IF ContainsAny(u, {<<"w">>, <<"w","a","t","t">>}) THEN "power"
        ELSE IF ContainsAny(u, {<<"c">>, <<"f">>, <<"t","e","m","p">>})
             THEN "temperature"
        ELSE IF Contains(u, <<"%">>) THEN "percentage"
        ELSE "none"

\* A response of the transport: None, an error response, or registers.
NoneResponse == [kind |-> "none", registers |-> <<>>]
ErrorResponse == [kind |-> "error", registers |-> <<>>]
OkResponse(regs) == [kind |-> "ok", registers |-> regs]

\* _decode_value: the raw integer of the registers, which it divides by the
\* gain.
decode_raw(registers, data_type) == convert_from_registers(registers, data_type)

\* Long division of a magnitude by the gain: quotient and remainder.  A
\* quotient of 2^31 or more is reported as 2^31 - 1, above every bound.
RECURSIVE LongDiv(_, _, _, _)
LongDiv(digits, gain, q, r) ==
    IF digits = <<>> THEN <<q, r>>
    ELSE LET cur == r * 65536 + Head(digits)
         IN  LongDiv(Tail(digits), gain,
                     IF q >= 32768 THEN 2147483647
                     ELSE q * 65536 + (cur \div gain),
                     cur % gain)

\* magnitude / gain <= bound
MagLeq(mag, gain, bound) ==
    LET qr == LongDiv(mag, gain, 0, 0)
    IN  qr[1] < bound \/ (qr[1] = bound /\ qr[2] = 0)

\* The comparison of value = raw / gain with max_reasonable, lines 303-326.
InBoundsNonZero(raw, gain, class) ==
    /\ raw.mag # <<>>
    /\ CASE class \in {"voltage", "current", "power"} -> MagLeq(raw.mag, gain, 1000)
         [] class = "energy" -> MagLeq(raw.mag, gain, 10000000)
         [] class = "temperature" ->
                MagLeq(raw.mag, gain, IF raw.neg THEN 50 ELSE 200)
         [] class = "percentage" -> ~raw.neg /\ MagLeq(raw.mag, gain, 120)
         [] OTHER -> TRUE
InBounds(raw, gain, class) ==
    CASE class = "voltage" -> MagLeq(raw.mag, gain, 1000)
      [] class = "current" -> MagLeq(raw.mag, gain, 1000)
      [] class = "energy" -> MagLeq(raw.mag, gain, 10000000)
      [] class = "power" -> MagLeq(raw.mag, gain, 1000)
      [] class = "temperature" ->
             IF raw.neg THEN MagLeq(raw.mag, gain, 50)
             ELSE MagLeq(raw.mag, gain, 200)
      [] class = "percentage" -> ~raw.neg /\ MagLeq(raw.mag, gain, 120)
      [] OTHER -> TRUE

\* Lines 277-286: no response, an error response, or no registers in it.
IsFailureLenient(result) == result.kind \in {"none", "error"}
IsFailure(result) ==
    result.kind \in {"none", "error"} \/ result.registers = <<>>

\* Line 295: all(reg == 0 for reg in registers)
AnyZero(registers) == \E i \in 1..Len(registers) : registers[i] = 0
AllZero(registers) == \A i \in 1..Len(registers) : registers[i] = 0

\* SigenergyModbusHub._validate_register_response
validate_register_response(result, register_def) ==
    IF IsFailure(result) THEN FALSE
    ELSE IF register_def.data_type = "string"
         THEN ~AllZero(result.registers)
    ELSE InBounds(decode_raw(result.registers, register_def.data_type),
                  register_def.gain, UnitClass(register_def.unit))

\* What the device may answer to a probe read.
ProbeResponses ==
    { NoneResponse, ErrorResponse, OkResponse(<<>>), OkResponse(<<0>>),
      OkResponse(<<230>>), OkResponse(<<65535>>) }

\* The read a probe issues for a register: input registers for READ_ONLY,
\* holding registers for HOLDING, none for any other register type.
ProbeRead(register_def) ==
    CASE register_def.register_type = "ro" -> "read_input_registers"
      [] register_def.register_type = "rw" -> "read_holding_registers"
      [] OTHER -> "none"

\* ------------------------------------------------------------------ state
VARIABLES
    clients,        \* _clients: endpoint -> client id, 0 when the key is absent
    clientKeys,     \* the keys of _clients in insertion order
    connected,      \* _connected.get(key, False)
    locks,          \* _locks: the asyncio.Lock of each endpoint
    is_supported,   \* ModbusRegisterDefinition.is_supported of each register
    conf_read_only, \* plant_connection[CONF_READ_ONLY]: "unset", TRUE or FALSE
    running,        \* the coroutine that is executing, NoTask when none is
    pc,             \* where each caller is
    op,             \* the hub call each caller is in (or was in last)
    ret,            \* the client the call's _get_client returned, 0 when none
    outcome,        \* how the caller's last finished call ended
    batch,          \* probe: the registers a probe task was created for
    results,        \* probe: what each probe task returned
    inflight,       \* probe: the registers whose read is on the wire
    iter,           \* async_close: the dict iterator and the client in hand
    calls,          \* the hub calls started so far
    created,        \* transport: clients constructed per endpoint
    closed,         \* transport: the client ids close() was called on
    connects,       \* transport: connect() attempts per endpoint
    ioCalls,        \* transport calls (connect, read, write) made by the call
    readsIssued,    \* transport: the registers a read was ever issued for
    connFailed,     \* a connect() on the endpoint failed or was abandoned
    dropped,        \* _connected[key] was set to False at some time
    waited,         \* the call's _get_client waited for the endpoint's lock
    lost,           \* transport: the clients whose connection has dropped
    overlap,        \* async_close: a call that acquires a client ran meanwhile
    fnArgs,         \* the arguments of a pure function under study
    fnResult,       \* what the function returned for them
    pymodbus_logger,\* logging.getLogger("pymodbus"): its level and propagate
    saved,          \* probe: original_level, original_propagate of each task
    loggerBefore,   \* probe: the pymodbus logger when the batch started
    writeCalls,     \* entity: the hub writes the handler has started
    refreshCalls,   \* entity: the coordinator refreshes it has requested
    writeResult     \* entity: how the handler's hub write ended

hubVars == <<clients, clientKeys, connected, locks, is_supported, conf_read_only>>
taskVars == <<running, pc, op, ret, outcome, batch, results, inflight, iter, calls>>
histVars == <<created, closed, connects, ioCalls, readsIssued, connFailed,
              dropped, waited>>
pureVars == <<fnArgs, fnResult>>
logVars == <<pymodbus_logger, saved, loggerBefore>>
entVars == <<writeCalls, refreshCalls, writeResult>>
auxVars == <<lost, overlap, pureVars, logVars, entVars>>
vars == <<hubVars, taskVars, histVars, auxVars>>

\* ------------------------------------------------------------ asyncio.Lock
\* holder: the coroutine inside "async with" (NoTask: unlocked); waiters: the
\* queue of acquire() calls; woken: release() has woken the first waiter.
NewLock == [exists |-> FALSE, holder |-> NoTask, waiters |-> <<>>, woken |-> FALSE]

\* acquire() returns at once only when the lock is free and nobody waits.
CanAcquire(l) == l.holder = NoTask /\ l.waiters = <<>>
Acquire(l, t) == [l EXCEPT !.exists = TRUE, !.holder = t]
Enqueue(l, t) == [l EXCEPT !.exists = TRUE, !.waiters = Append(@, t)]
\* release(): unlock and wake the first waiter.
ReleaseLeaked(l) == l
Release(l) == [l EXCEPT !.holder = NoTask, !.woken = (l.waiters # <<>>)]
\* The woken first waiter leaves the queue and takes the lock.
CanResume(l, t) ==
    l.woken /\ l.holder = NoTask /\ l.waiters # <<>> /\ Head(l.waiters) = t
Resume(l, t) == [l EXCEPT !.holder = t, !.waiters = Tail(@), !.woken = FALSE]
\* A cancelled waiter leaves the queue; if the lock is free the next is woken.
Without(seq, t) == SelectSeq(seq, LAMBDA x : x # t)
Abandon(l, t) ==
    LET rest == Without(l.waiters, t)
    IN  [l EXCEPT !.waiters = rest,
                  !.woken = IF l.holder = NoTask THEN rest # <<>> ELSE l.woken]

\* self._locks[key]: the lock a call on an endpoint uses is the one stored
\* under the endpoint's own connection key.
LockKeyShared(e) == "gw1"
LockKey(e) == e

\* hub.read_only as __init__ computes it.
DEFAULT_READ_ONLY == TRUE
ReadOnlySettingWritable(conf) == IF conf = "unset" THEN FALSE ELSE conf = "true"
ReadOnlySetting(conf) == IF conf = "unset" THEN DEFAULT_READ_ONLY ELSE conf = "true"
read_only == ReadOnlySetting(conf_read_only)

NoOp == [name |-> "none", ep |-> "gw1", slave |-> NoSlave, regs |-> "parameter"]
NoIter == [idx |-> 0, size |-> 0, client |-> 0]
NoResults == [r \in RegisterNames |-> "none"]
NoCall == "none"

\* The pymodbus logger as the logging module creates it, and as
\* _suppress_pymodbus_logging sets it (lines 109-110).
LoggerDefault == [level |-> "NOTSET", propagate |-> TRUE]
Suppressed == [level |-> "CRITICAL", propagate |-> FALSE]
NotSaved == [level |-> "none", propagate |-> FALSE]
NoSaved == [r \in RegisterNames |-> NotSaved]

InitHub ==
    /\ clients = [e \in Endpoints |-> 0]
    /\ clientKeys = <<>>
    /\ connected = [e \in Endpoints |-> FALSE]
    /\ locks = [e \in Endpoints |-> NewLock]
    /\ is_supported = [r \in RegisterNames |-> "None"]
    /\ running = NoTask
    /\ pc = [t \in Tasks |-> "idle"]
    /\ op = [t \in Tasks |-> NoOp]
    /\ ret = [t \in Tasks |-> 0]
    /\ outcome = [t \in Tasks |-> "none"]
    /\ batch = [t \in Tasks |-> {}]
    /\ results = [t \in Tasks |-> NoResults]
    /\ inflight = [t \in Tasks |-> {}]
    /\ iter = [t \in Tasks |-> NoIter]
    /\ calls = 0
    /\ created = [e \in Endpoints |-> 0]
    /\ closed = [e \in Endpoints |-> {}]
    /\ connects = [e \in Endpoints |-> 0]
    /\ ioCalls = [t \in Tasks |-> 0]
    /\ readsIssued = {}
    /\ connFailed = [e \in Endpoints |-> FALSE]
    /\ dropped = [e \in Endpoints |-> FALSE]
    /\ waited = [t \in Tasks |-> FALSE]
    /\ lost = [e \in Endpoints |-> {}]
    /\ overlap = [t \in Tasks |-> FALSE]
    /\ pymodbus_logger = LoggerDefault
    /\ saved = [t \in Tasks |-> NoSaved]
    /\ loggerBefore = [t \in Tasks |-> LoggerDefault]
    /\ writeCalls = [t \in Tasks |-> 0]
    /\ refreshCalls = [t \in Tasks |-> 0]
    /\ writeResult = [t \in Tasks |-> "none"]

\* The hub after construction from a configuration that does not set read_only.
Init ==
    /\ InitHub
    /\ conf_read_only = "unset"
    /\ fnArgs = NoCall
    /\ fnResult = NoCall

\* ------------------------------------------------------------ call frame
\* Where a caller is while it is inside _get_client, and inside async_close.
AcquireStates == {"gc_check", "gc_wait", "gc_locked", "gc_connecting"}
CloseStates == {"cl_iter", "cl_wait"}

\* A caller enters a hub call: the per-call bookkeeping starts afresh.
Begin(t, o) ==
    /\ running = NoTask
    /\ pc[t] = "idle"
    /\ calls < MaxCalls
    /\ op' = [op EXCEPT ![t] = o]
    /\ calls' = calls + 1
    /\ ret' = [ret EXCEPT ![t] = 0]
    /\ batch' = [batch EXCEPT ![t] = {}]
    /\ results' = [results EXCEPT ![t] = NoResults]
    /\ ioCalls' = [ioCalls EXCEPT ![t] = 0]
    /\ waited' = [waited EXCEPT ![t] = FALSE]
    /\ overlap' = [u \in Tasks |->
           IF u = t
           THEN o.name = "close" /\ \E v \in Tasks : pc[v] \in AcquireStates
           ELSE overlap[u] \/ (pc[u] \in CloseStates /\ o.name # "close")]

\* The call ends (returns or raises) and the caller gives up the event loop.
Finish(t, out) ==
    /\ pc' = [pc EXCEPT ![t] = "idle"]
    /\ outcome' = [outcome EXCEPT ![t] = out]
    /\ running' = NoTask

\* --------------------------------------------------------------- _get_client
\* "key not in self._clients or not self._connected.get(key, False)", line 225.
NeedsClientKeyOnly(e) == clients[e] = 0
NeedsClient(e) == clients[e] = 0 \/ ~connected[e]

\* The same test repeated under the lock, line 230.
LockedNeedsClientAlways(e) == TRUE
LockedNeedsClient(e) == clients[e] = 0 \/ ~connected[e]

\* Line 245: a connect() that returned False raises SigenergyModbusError.
ConnectErrorSwallowed == "returned"
ConnectError == "SigenergyModbusError"

\* Lines 255-259: async_connect's own error, raised when the endpoint is not
\* flagged connected after _get_client has returned.
EstablishError == "SigenergyModbusError: failed to establish connection"

\* "return self._clients[key]": the caller of _get_client goes on;
\* async_connect tests the flag and ends.
Returns(t, c) ==
    /\ ret' = [ret EXCEPT ![t] = c]
    /\ IF op[t].name = "get_client"
       THEN Finish(t, "returned")
       ELSE IF op[t].name = "connect"
       THEN Finish(t, IF connected'[op[t].ep] THEN "returned"
                      ELSE EstablishError)
       ELSE /\ pc' = [pc EXCEPT ![t] =
                        IF op[t].name = "probe" THEN "pr_lock1" ELSE "wr_lock"]
            /\ running' = t
            /\ UNCHANGED outcome

CallGetClient(t, e) ==
    /\ Begin(t, [name |-> "get_client", ep |-> e, slave |-> NoSlave,
                 regs |-> "parameter"])
    /\ pc' = [pc EXCEPT ![t] = "gc_check"]
    /\ running' = t
    /\ UNCHANGED <<hubVars, outcome, inflight, iter>>
    /\ UNCHANGED <<created, closed, connects, readsIssued, connFailed, dropped>>
    /\ UNCHANGED <<lost, pureVars, logVars, entVars>>

\* Lines 251-254: async_connect awaits _get_client.
CallConnect(t, e) ==
    /\ Begin(t, [name |-> "connect", ep |-> e, slave |-> NoSlave,
                 regs |-> "parameter"])
    /\ pc' = [pc EXCEPT ![t] = "gc_check"]
    /\ running' = t
    /\ UNCHANGED <<hubVars, outcome, inflight, iter>>
    /\ UNCHANGED <<created, closed, connects, readsIssued, connFailed, dropped>>
    /\ UNCHANGED <<lost, pureVars, logVars, entVars>>

\* Lines 223-229: the unlocked test, the lock's creation and "async with".
GcCheck(t) ==
    LET e == op[t].ep
    IN  /\ running = t
        /\ pc[t] = "gc_check"
        /\ UNCHANGED <<clients, clientKeys, connected, is_supported, conf_read_only>>
        /\ IF ~NeedsClient(e)
           THEN /\ Returns(t, clients[e])
                /\ UNCHANGED <<locks, waited>>
           ELSE IF CanAcquire(locks[LockKey(e)])
           THEN /\ locks' = [locks EXCEPT ![LockKey(e)] = Acquire(@, t)]
                /\ pc' = [pc EXCEPT ![t] = "gc_locked"]
                /\ UNCHANGED <<running, ret, outcome, waited>>
           ELSE /\ locks' = [locks EXCEPT ![LockKey(e)] = Enqueue(@, t)]
                /\ pc' = [pc EXCEPT ![t] = "gc_wait"]
                /\ running' = NoTask
                /\ waited' = [waited EXCEPT ![t] = TRUE]
                /\ UNCHANGED <<ret, outcome>>
        /\ UNCHANGED <<op, batch, results, inflight, iter, calls>>
        /\ UNCHANGED <<created, closed, connects, ioCalls, readsIssued,
                       connFailed, dropped>>
        /\ UNCHANGED auxVars

\* The waiter woken by release() takes the lock.
GcResume(t) ==
    LET e == op[t].ep
    IN  /\ running = NoTask
        /\ pc[t] = "gc_wait"
        /\ CanResume(locks[LockKey(e)], t)
        /\ locks' = [locks EXCEPT ![LockKey(e)] = Resume(@, t)]
        /\ pc' = [pc EXCEPT ![t] = "gc_locked"]
        /\ running' = t
        /\ UNCHANGED <<clients, clientKeys, connected, is_supported, conf_read_only>>
        /\ UNCHANGED <<op, ret, outcome, batch, results, inflight, iter, calls>>
        /\ UNCHANGED histVars
        /\ UNCHANGED auxVars

\* Lines 230-241: under the lock, test again; create the client and connect.
GcLocked(t) ==
    LET e == op[t].ep
    IN  /\ running = t
        /\ pc[t] = "gc_locked"
        /\ UNCHANGED <<connected, is_supported, conf_read_only>>
        /\ IF LockedNeedsClient(e)
           THEN /\ created[e] < MaxClients
                /\ clients' = [clients EXCEPT ![e] = created[e] + 1]
                /\ clientKeys' = IF clients[e] = 0 THEN Append(clientKeys, e)
                                 ELSE clientKeys
                /\ created' = [created EXCEPT ![e] = @ + 1]
                /\ connects' = [connects EXCEPT ![e] = @ + 1]
                /\ ioCalls' = [ioCalls EXCEPT ![t] = @ + 1]
                /\ pc' = [pc EXCEPT ![t] = "gc_connecting"]
                /\ running' = NoTask
                /\ UNCHANGED <<locks, ret, outcome>>
           ELSE /\ locks' = [locks EXCEPT ![LockKey(e)] = Release(@)]
                /\ Returns(t, clients[e])
                /\ UNCHANGED <<clients, clientKeys, created, connects, ioCalls>>
        /\ UNCHANGED <<op, batch, results, inflight, iter, calls>>
        /\ UNCHANGED <<closed, readsIssued, connFailed, dropped, waited>>
        /\ UNCHANGED auxVars

\* Lines 241-250: connect() answers; the lock is released on either way out.
GcConnectDone(t, ok) ==
    LET e == op[t].ep
    IN  /\ running = NoTask
        /\ pc[t] = "gc_connecting"
        /\ locks' = [locks EXCEPT ![LockKey(e)] = Release(@)]
        /\ IF ok
           THEN /\ connected' = [connected EXCEPT ![e] = TRUE]
                /\ Returns(t, clients[e])
                /\ UNCHANGED connFailed
           ELSE /\ connFailed' = [connFailed EXCEPT ![e] = TRUE]
                /\ Finish(t, ConnectError)
                /\ UNCHANGED <<connected, ret>>
        /\ UNCHANGED <<clients, clientKeys, is_supported, conf_read_only>>
        /\ UNCHANGED <<op, batch, results, inflight, iter, calls>>
        /\ UNCHANGED <<created, closed, connects, ioCalls, readsIssued,
                       dropped, waited>>
        /\ UNCHANGED auxVars

\* ----------------------------------------------------- async_probe_registers
\* The registers of a set whose is_supported is None.
Unknown(regs) == {r \in regs : is_supported[r] = "None"}

\* _probe_single_register for a register type it does not read (line 363):
\* the tuple's support flag.
NoReadResultSupported(register_def) == "True"
NoReadResult(register_def) == "False"

\* The handlers at lines 422-424 and 430-432: every register of the set that
\* is still None becomes False.
MarkUnsupported(sup, regs) ==
    [r \in RegisterNames |->
        IF r \in regs /\ sup[r] = "None" THEN "False" ELSE sup[r]]

\* Line 433: the connection is assumed broken.
MarkSuspectSkipped(conn, e) == conn
MarkSuspect(conn, e) == [conn EXCEPT ![e] = FALSE]

\* Line 425: the handler raises the CancelledError again.
CancelSwallowed == "returned"
CancelOutcome == "CancelledError"

\* Lines 441-458: a task that returned a tuple sets its register's flag, a
\* task that ended with an exception leaves it alone.
ProcessResultsGuessing(sup, b, res) ==
    [r \in RegisterNames |->
        IF r \in b THEN (IF res[r] = "True" THEN "True" ELSE "False") ELSE sup[r]]
ProcessResults(sup, b, res) ==
    [r \in RegisterNames |->
        IF r \in b /\ res[r] \in {"True", "False"} THEN res[r] ELSE sup[r]]

\* Lines 381-382: device info without a slave id raises ValueError.
SlaveIdErrorSwallowed == "returned"
SlaveIdError == "ValueError"

CallProbe(t, d, c) ==
    /\ Begin(t, [name |-> "probe", ep |-> d.ep, slave |-> d.slave, regs |-> c])
    /\ IF d.slave = NoSlave
       THEN Finish(t, SlaveIdError)
       ELSE /\ pc' = [pc EXCEPT ![t] = "gc_check"]
            /\ running' = t
            /\ UNCHANGED outcome
    /\ UNCHANGED <<hubVars, inflight, iter>>
    /\ UNCHANGED <<created, closed, connects, readsIssued, connFailed, dropped>>
    /\ UNCHANGED <<lost, pureVars, logVars, entVars>>

\* Lines 390-409 once the lock is held: the tasks are created (not started),
\* the lock is released, and an empty task list ends the call.
BuildTasks(t) ==
    LET b == Unknown(CatalogRegisters(op[t].regs))
    IN  /\ batch' = [batch EXCEPT ![t] = b]
        /\ IF b = {}
           THEN Finish(t, "returned")
           ELSE /\ pc' = [pc EXCEPT ![t] = "pr_lock2"]
                /\ running' = t
                /\ UNCHANGED outcome

PrLock1(t) ==
    LET e == op[t].ep
    IN  /\ running = t
        /\ pc[t] = "pr_lock1"
        /\ IF CanAcquire(locks[LockKey(e)])
           THEN /\ locks' = [locks EXCEPT ![LockKey(e)] = Release(Acquire(@, t))]
                /\ BuildTasks(t)
           ELSE /\ locks' = [locks EXCEPT ![LockKey(e)] = Enqueue(@, t)]
                /\ pc' = [pc EXCEPT ![t] = "pr_wait1"]
                /\ running' = NoTask
                /\ UNCHANGED <<batch, outcome>>
        /\ UNCHANGED <<clients, clientKeys, connected, is_supported, conf_read_only>>
        /\ UNCHANGED <<op, ret, results, inflight, iter, calls>>
        /\ UNCHANGED histVars
        /\ UNCHANGED auxVars

PrResume1(t) ==
    LET e == op[t].ep
    IN  /\ running = NoTask
        /\ pc[t] = "pr_wait1"
        /\ CanResume(locks[LockKey(e)], t)
        /\ locks' = [locks EXCEPT ![LockKey(e)] = Release(Resume(@, t))]
        /\ BuildTasks(t)
        /\ UNCHANGED <<clients, clientKeys, connected, is_supported, conf_read_only>>
        /\ UNCHANGED <<op, ret, results, inflight, iter, calls>>
        /\ UNCHANGED histVars
        /\ UNCHANGED auxVars

\* register_defs.items(): the registers of a table in the order of the dict.
CatalogOrder(c) ==
    IF c = "parameter"
    THEN <<"inverter_start_stop", "inverter_grid_code",
           "inverter_active_power_percentage_adjustment">>
    ELSE <<"inverter_ess_average_cell_voltage">>

\* Line 345: _LOGGER.isEnabledFor(logging.DEBUG) is False for a logger at
\* its default level, so the suppression is asked for.
DebugEnabled == FALSE
really_suppress == ~DebugEnabled

\* _suppress_pymodbus_logging on entry (lines 106-110): what the task keeps
\* and what the logger becomes.
SavedOnEntry(logger) == IF really_suppress THEN logger ELSE NotSaved
LoggerOnEntry(logger) == IF really_suppress THEN Suppressed ELSE logger

\* ... and in its finally clause (lines 114-116).
LoggerOnExit(logger, kept) == IF kept = NotSaved THEN logger ELSE kept

\* The tasks of a batch start in the order they were created in; each one
\* enters the context manager and runs to its read, or, for a register type
\* that is not read, to its return and so through the finally clause.
RECURSIVE EnterTasks(_, _, _)
EnterTasks(order, b, st) ==
    IF order = <<>> THEN st
    ELSE LET r == Head(order)
             kept == SavedOnEntry(st.logger)
             entered == LoggerOnEntry(st.logger)
         IN  IF r \notin b THEN EnterTasks(Tail(order), b, st)
             ELSE IF ProbeRead(RegisterDefs[r]) = "none"
             THEN EnterTasks(Tail(order), b,
                      [st EXCEPT !.logger = LoggerOnExit(entered, kept)])
             ELSE EnterTasks(Tail(order), b,
                      [logger |-> entered,
                       saved |-> [st.saved EXCEPT ![r] = kept]])

\* The tasks that are still in their read are cancelled: each one leaves
\* the context manager, in the order the tasks were created in.
RECURSIVE ExitTasks(_, _, _)
ExitTasks(order, live, st) ==
    IF order = <<>> THEN st
    ELSE LET r == Head(order)
         IN  IF r \notin live THEN ExitTasks(Tail(order), live, st)
             ELSE ExitTasks(Tail(order), live,
                      [logger |-> LoggerOnExit(st.logger, st.saved[r]),
                       saved |-> [st.saved EXCEPT ![r] = NotSaved]])

\* Line 418, gather(*tasks): every task runs to its first await.  A task for
\* a READ_ONLY or HOLDING register issues its read; any other returns at once.
StartGather(t) ==
    LET reads == {r \in batch[t] : ProbeRead(RegisterDefs[r]) # "none"}
    IN  /\ results' = [results EXCEPT ![t] =
               [r \in RegisterNames |->
                   IF r \in reads THEN "pending"
                   ELSE IF r \in batch[t] THEN NoReadResult(RegisterDefs[r])
                   ELSE "none"]]
        /\ inflight' = [inflight EXCEPT ![t] = reads]
        /\ readsIssued' = readsIssued \cup reads
        /\ ioCalls' = [ioCalls EXCEPT ![t] = @ + Cardinality(reads)]
        /\ pc' = [pc EXCEPT ![t] = "pr_gather"]
        /\ running' = NoTask
        /\ LET st == EnterTasks(CatalogOrder(op[t].regs), batch[t],
                                [logger |-> pymodbus_logger, saved |-> NoSaved])
           IN  /\ pymodbus_logger' = st.logger
               /\ saved' = [saved EXCEPT ![t] = st.saved]
        /\ loggerBefore' = [loggerBefore EXCEPT ![t] = pymodbus_logger]

\* Line 416: the second "async with" of the call.
PrLock2Unlocked(t) ==
    /\ running = t
    /\ pc[t] = "pr_lock2"
    /\ StartGather(t)
    /\ UNCHANGED <<hubVars, op, ret, outcome, batch, iter, calls>>
    /\ UNCHANGED <<created, closed, connects, connFailed, dropped, waited>>
    /\ UNCHANGED <<lost, overlap, pureVars, entVars>>
PrLock2(t) ==
    LET e == op[t].ep
    IN  /\ running = t
        /\ pc[t] = "pr_lock2"
        /\ IF CanAcquire(locks[LockKey(e)])
           THEN /\ locks' = [locks EXCEPT ![LockKey(e)] = Acquire(@, t)]
                /\ StartGather(t)
           ELSE /\ locks' = [locks EXCEPT ![LockKey(e)] = Enqueue(@, t)]
                /\ pc' = [pc EXCEPT ![t] = "pr_wait2"]
                /\ running' = NoTask
                /\ UNCHANGED <<results, inflight, readsIssued, ioCalls>>
                /\ UNCHANGED logVars
        /\ UNCHANGED <<clients, clientKeys, connected, is_supported, conf_read_only>>
        /\ UNCHANGED <<op, ret, outcome, batch, iter, calls>>
        /\ UNCHANGED <<created, closed, connects, connFailed, dropped, waited>>
        /\ UNCHANGED <<lost, overlap, pureVars, entVars>>

PrResume2(t) ==
    LET e == op[t].ep
    IN  /\ running = NoTask
        /\ pc[t] = "pr_wait2"
        /\ CanResume(locks[LockKey(e)], t)
        /\ locks' = [locks EXCEPT ![LockKey(e)] = Resume(@, t)]
        /\ StartGather(t)
        /\ UNCHANGED <<clients, clientKeys, connected, is_supported, conf_read_only>>
        /\ UNCHANGED <<op, ret, outcome, batch, iter, calls>>
        /\ UNCHANGED <<created, closed, connects, connFailed, dropped, waited>>
        /\ UNCHANGED <<lost, overlap, pureVars, entVars>>

\* Lines 347-372: the device answers one read and the task validates it.
ReadDone(t, r, resp) ==
    /\ running = NoTask
    /\ pc[t] = "pr_gather"
    /\ r \in inflight[t]
    /\ inflight' = [inflight EXCEPT ![t] = @ \ {r}]
    /\ results' = [results EXCEPT ![t][r] =
           IF validate_register_response(resp, RegisterDefs[r])
           THEN "True" ELSE "False"]
    /\ UNCHANGED <<hubVars, running, pc, op, ret, outcome, batch, iter, calls>>
    /\ UNCHANGED histVars
    /\ pymodbus_logger' = LoggerOnExit(pymodbus_logger, saved[t][r])
    /\ saved' = [saved EXCEPT ![t][r] = NotSaved]
    /\ UNCHANGED <<lost, overlap, pureVars, loggerBefore, entVars>>

\* The read raises (ModbusException, ConnectionException, a timeout): gather
\* hands the exception back as the task's result.
ReadRaises(t, r) ==
    /\ running = NoTask
    /\ pc[t] = "pr_gather"
    /\ r \in inflight[t]
    /\ inflight' = [inflight EXCEPT ![t] = @ \ {r}]
    /\ results' = [results EXCEPT ![t][r] = "exc"]
    /\ UNCHANGED <<hubVars, running, pc, op, ret, outcome, batch, iter, calls>>
    /\ UNCHANGED histVars
    /\ pymodbus_logger' = LoggerOnExit(pymodbus_logger, saved[t][r])
    /\ saved' = [saved EXCEPT ![t][r] = NotSaved]
    /\ UNCHANGED <<lost, overlap, pureVars, loggerBefore, entVars>>

\* Lines 418, 436-458: every task is done; the lock is released and the
\* results are processed.
GatherDone(t) ==
    LET e == op[t].ep
    IN  /\ running = NoTask
        /\ pc[t] = "pr_gather"
        /\ inflight[t] = {}
        /\ locks' = [locks EXCEPT ![LockKey(e)] = Release(@)]
        /\ is_supported' = ProcessResults(is_supported, batch[t], results[t])
        /\ Finish(t, "returned")
        /\ UNCHANGED <<clients, clientKeys, connected, conf_read_only>>
        /\ UNCHANGED <<op, ret, batch, results, inflight, iter, calls>>
        /\ UNCHANGED histVars
        /\ UNCHANGED auxVars

\* Lines 426-434: the gather step itself raises an Exception.
GatherRaises(t) ==
    LET e == op[t].ep
    IN  /\ running = NoTask
        /\ pc[t] = "pr_gather"
        /\ locks' = [locks EXCEPT ![LockKey(e)] = Release(@)]
        /\ inflight' = [inflight EXCEPT ![t] = {}]
        /\ is_supported' =
               MarkUnsupported(is_supported, CatalogRegisters(op[t].regs))
        /\ connected' = MarkSuspect(connected, e)
        /\ dropped' = [dropped EXCEPT ![e] = TRUE]
        /\ Finish(t, "returned_after_error")
        /\ UNCHANGED <<clients, clientKeys, conf_read_only>>
        /\ UNCHANGED <<op, ret, batch, results, iter, calls>>
        /\ UNCHANGED <<created, closed, connects, ioCalls, readsIssued,
                       connFailed, waited>>
        /\ LET st == ExitTasks(CatalogOrder(op[t].regs), inflight[t],
                               [logger |-> pymodbus_logger, saved |-> saved[t]])
           IN  /\ pymodbus_logger' = st.logger
               /\ saved' = [saved EXCEPT ![t] = st.saved]
        /\ UNCHANGED <<lost, overlap, pureVars, loggerBefore, entVars>>

\* ------------------------------------------------------------- cancellation
\* The caller's task is cancelled while _get_client is suspended: in the
\* lock's queue, or in connect() with the lock held.
CancelGetClient(t) ==
    LET e == op[t].ep
    IN  /\ running = NoTask
        /\ pc[t] \in {"gc_wait", "gc_connecting"}
        /\ locks' = [locks EXCEPT ![LockKey(e)] =
               IF pc[t] = "gc_wait" THEN Abandon(@, t) ELSE Release(@)]
        /\ connFailed' = [connFailed EXCEPT ![e] = @ \/ pc[t] = "gc_connecting"]
        /\ Finish(t, "CancelledError")
        /\ UNCHANGED <<clients, clientKeys, connected, is_supported, conf_read_only>>
        /\ UNCHANGED <<op, ret, batch, results, inflight, iter, calls>>
        /\ UNCHANGED <<created, closed, connects, ioCalls, readsIssued,
                       dropped, waited>>
        /\ UNCHANGED auxVars

\* Cancelled in the queue of the first "async with" (line 390), whose handler
\* catches Exception only.
CancelBeforeBatch(t) ==
    LET e == op[t].ep
    IN  /\ running = NoTask
        /\ pc[t] = "pr_wait1"
        /\ locks' = [locks EXCEPT ![LockKey(e)] = Abandon(@, t)]
        /\ Finish(t, "CancelledError")
        /\ UNCHANGED <<clients, clientKeys, connected, is_supported, conf_read_only>>
        /\ UNCHANGED <<op, ret, batch, results, inflight, iter, calls>>
        /\ UNCHANGED histVars
        /\ UNCHANGED auxVars

\* Lines 415-425: cancelled inside the second try, waiting for the lock or in
\* gather; the handler marks the registers and raises again.
CancelBatch(t) ==
    LET e == op[t].ep
    IN  /\ running = NoTask
        /\ pc[t] \in {"pr_wait2", "pr_gather"}
        /\ locks' = [locks EXCEPT ![LockKey(e)] =
               IF pc[t] = "pr_wait2" THEN Abandon(@, t) ELSE Release(@)]
        /\ inflight' = [inflight EXCEPT ![t] = {}]
        /\ is_supported' =
               MarkUnsupported(is_supported, CatalogRegisters(op[t].regs))
        /\ Finish(t, CancelOutcome)
        /\ UNCHANGED <<clients, clientKeys, connected, conf_read_only>>
        /\ UNCHANGED <<op, ret, batch, results, iter, calls>>
        /\ UNCHANGED histVars
        /\ LET st == ExitTasks(CatalogOrder(op[t].regs), inflight[t],
                               [logger |-> pymodbus_logger, saved |-> saved[t]])
           IN  /\ pymodbus_logger' = st.logger
               /\ saved' = [saved EXCEPT ![t] = st.saved]
        /\ UNCHANGED <<lost, overlap, pureVars, loggerBefore, entVars>>

\* ---------------------------------------------------------------- async_close
CallClose(t) ==
    /\ Begin(t, [name |-> "close", ep |-> "gw1", slave |-> NoSlave,
                 regs |-> "parameter"])
    /\ iter' = [iter EXCEPT ![t] =
                   [idx |-> 1, size |-> Len(clientKeys), client |-> 0]]
    /\ pc' = [pc EXCEPT ![t] = "cl_iter"]
    /\ running' = t
    /\ UNCHANGED <<hubVars, outcome, inflight>>
    /\ UNCHANGED <<created, closed, connects, readsIssued, connFailed, dropped>>
    /\ UNCHANGED <<lost, pureVars, logVars, entVars>>

\* Lines 268-269 under the endpoint's lock: close the client in hand.
CloseClientKeepsFlag(key, client) ==
    /\ closed' = [closed EXCEPT ![key] = @ \cup {client}]
    /\ UNCHANGED <<connected, dropped>>
CloseClient(key, client) ==
    /\ closed' = [closed EXCEPT ![key] = @ \cup {client}]
    /\ connected' = [connected EXCEPT ![key] = FALSE]
    /\ dropped' = [dropped EXCEPT ![key] = TRUE]

\* Lines 263-266: one step of "for key, client in self._clients.items()".
\* The iterator raises RuntimeError when the dict has grown since it was made.
ClIter(t) ==
    LET i == iter[t].idx
    IN  /\ running = t
        /\ pc[t] = "cl_iter"
        /\ IF Len(clientKeys) # iter[t].size
           THEN /\ Finish(t, "RuntimeError")
                /\ UNCHANGED <<locks, iter, closed, connected, dropped>>
           ELSE IF i > Len(clientKeys)
           THEN /\ Finish(t, "returned")
                /\ UNCHANGED <<locks, iter, closed, connected, dropped>>
           ELSE LET key == clientKeys[i]
                IN  IF ~connected[key]
                    THEN /\ iter' = [iter EXCEPT ![t].idx = i + 1]
                         /\ UNCHANGED <<locks, closed, connected, dropped>>
                         /\ UNCHANGED <<pc, outcome, running>>
                    ELSE IF CanAcquire(locks[LockKey(key)])
                    THEN /\ locks' = [locks EXCEPT ![LockKey(key)] = Release(Acquire(@, t))]
                         /\ CloseClient(key, clients[key])
                         /\ iter' = [iter EXCEPT ![t].idx = i + 1]
                         /\ UNCHANGED <<pc, outcome, running>>
                    ELSE /\ locks' = [locks EXCEPT ![LockKey(key)] = Enqueue(@, t)]
                         /\ iter' = [iter EXCEPT ![t].client = clients[key]]
                         /\ pc' = [pc EXCEPT ![t] = "cl_wait"]
                         /\ running' = NoTask
                         /\ UNCHANGED <<outcome, closed, connected, dropped>>
        /\ UNCHANGED <<clients, clientKeys, is_supported, conf_read_only>>
        /\ UNCHANGED <<op, ret, batch, results, inflight, calls>>
        /\ UNCHANGED <<created, connects, ioCalls, readsIssued, connFailed, waited>>
        /\ UNCHANGED auxVars

\* The lock arrives: the client taken from the dict before the wait is closed.
ClResume(t) ==
    LET key == clientKeys[iter[t].idx]
    IN  /\ running = NoTask
        /\ pc[t] = "cl_wait"
        /\ CanResume(locks[LockKey(key)], t)
        /\ locks' = [locks EXCEPT ![LockKey(key)] = Release(Resume(@, t))]
        /\ CloseClient(key, iter[t].client)
        /\ iter' = [iter EXCEPT ![t].idx = @ + 1]
        /\ pc' = [pc EXCEPT ![t] = "cl_iter"]
        /\ running' = t
        /\ UNCHANGED <<clients, clientKeys, is_supported, conf_read_only>>
        /\ UNCHANGED <<op, ret, outcome, batch, results, inflight, calls>>
        /\ UNCHANGED <<created, connects, ioCalls, readsIssued, connFailed, waited>>
        /\ UNCHANGED auxVars

CancelClose(t) ==
    LET key == clientKeys[iter[t].idx]
    IN  /\ running = NoTask
        /\ pc[t] = "cl_wait"
        /\ locks' = [locks EXCEPT ![LockKey(key)] = Abandon(@, t)]
        /\ Finish(t, "CancelledError")
        /\ UNCHANGED <<clients, clientKeys, connected, is_supported, conf_read_only>>
        /\ UNCHANGED <<op, ret, batch, results, inflight, iter, calls>>
        /\ UNCHANGED histVars
        /\ UNCHANGED auxVars

\* ------------------------------------------------------------- transport
\* The connection of an endpoint's client drops (the peer closes it, the
\* link fails).  The client knows; no code of the hub runs.
TransportDrop(e) ==
    /\ running = NoTask
    /\ clients[e] # 0
    /\ connected[e]
    /\ clients[e] \notin lost[e] \cup closed[e]
    /\ lost' = [lost EXCEPT ![e] = @ \cup {clients[e]}]
    /\ UNCHANGED <<hubVars, taskVars, histVars, overlap, pureVars, logVars, entVars>>

\* ---------------------------------------------------------- parameter write
\* The hub's write: the read-only gate first, then the client, the
\* endpoint's lock and one write request.
CallWrite(t, e) ==
    /\ Begin(t, [name |-> "write", ep |-> e, slave |-> NoSlave,
                 regs |-> "parameter"])
    /\ IF read_only
       THEN Finish(t, "WriteRejected")
       ELSE /\ pc' = [pc EXCEPT ![t] = "gc_check"]
            /\ running' = t
            /\ UNCHANGED outcome
    /\ UNCHANGED <<hubVars, inflight, iter>>
    /\ UNCHANGED <<created, closed, connects, readsIssued, connFailed, dropped>>
    /\ UNCHANGED <<lost, pureVars, logVars, entVars>>

WrLock(t) ==
    LET e == op[t].ep
    IN  /\ running = t
        /\ pc[t] = "wr_lock"
        /\ IF CanAcquire(locks[LockKey(e)])
           THEN /\ locks' = [locks EXCEPT ![LockKey(e)] = Acquire(@, t)]
                /\ ioCalls' = [ioCalls EXCEPT ![t] = @ + 1]
                /\ pc' = [pc EXCEPT ![t] = "wr_io"]
           ELSE /\ locks' = [locks EXCEPT ![LockKey(e)] = Enqueue(@, t)]
                /\ pc' = [pc EXCEPT ![t] = "wr_wait"]
                /\ UNCHANGED ioCalls
        /\ running' = NoTask
        /\ UNCHANGED <<clients, clientKeys, connected, is_supported, conf_read_only>>
        /\ UNCHANGED <<op, ret, outcome, batch, results, inflight, iter, calls>>
        /\ UNCHANGED <<created, closed, connects, readsIssued, connFailed,
                       dropped, waited>>
        /\ UNCHANGED auxVars

WrResume(t) ==
    LET e == op[t].ep
    IN  /\ running = NoTask
        /\ pc[t] = "wr_wait"
        /\ CanResume(locks[LockKey(e)], t)
        /\ locks' = [locks EXCEPT ![LockKey(e)] = Resume(@, t)]
        /\ ioCalls' = [ioCalls EXCEPT ![t] = @ + 1]
        /\ pc' = [pc EXCEPT ![t] = "wr_io"]
        /\ UNCHANGED <<clients, clientKeys, connected, is_supported, conf_read_only>>
        /\ UNCHANGED <<running, op, ret, outcome, batch, results, inflight, iter, calls>>
        /\ UNCHANGED <<created, closed, connects, readsIssued, connFailed,
                       dropped, waited>>
        /\ UNCHANGED auxVars

WrDone(t, ok) ==
    LET e == op[t].ep
    IN  /\ running = NoTask
        /\ pc[t] = "wr_io"
        /\ locks' = [locks EXCEPT ![LockKey(e)] = Release(@)]
        /\ Finish(t, IF ok THEN "returned" ELSE "SigenergyModbusError")
        /\ UNCHANGED <<clients, clientKeys, connected, is_supported, conf_read_only>>
        /\ UNCHANGED <<op, ret, batch, results, inflight, iter, calls>>
        /\ UNCHANGED histVars
        /\ UNCHANGED auxVars

\* ------------------------------------------------- write-capable entities
\* SigenergyNumber.async_set_native_value, SigenergySelect.async_select_option,
\* SigenergySwitch.async_turn_on and async_turn_off: each awaits one write of
\* the hub and then the coordinator's refresh request, inside one try block
\* with "except SigenergyModbusError" that logs the error.
EntityHandlers ==
    {"async_set_native_value", "async_select_option",
     "async_turn_on", "async_turn_off"}

\* How an awaited hub write or refresh request can end.
AwaitResults == {"returned", "SigenergyModbusError", "Exception", "CancelledError"}

\* The refresh requests that follow a write: the statement after the await
\* of the write runs only when the write has returned.
RefreshRequestsAlways(write_result) == 1
RefreshRequests(write_result) == IF write_result = "returned" THEN 1 ELSE 0

\* How the handler ends when an await of its try block raises: the except
\* clause takes SigenergyModbusError and the handler returns None; any
\* other exception leaves the handler.
HandlerOutcome(raised) ==
    IF raised = "SigenergyModbusError" THEN "returned" ELSE raised

CallEntity(t, h) ==
    /\ Begin(t, [name |-> h, ep |-> "gw1", slave |-> NoSlave,
                 regs |-> "parameter"])
    /\ writeCalls' = [writeCalls EXCEPT ![t] = 1]
    /\ refreshCalls' = [refreshCalls EXCEPT ![t] = 0]
    /\ writeResult' = [writeResult EXCEPT ![t] = "none"]
    /\ pc' = [pc EXCEPT ![t] = "en_write"]
    /\ running' = NoTask
    /\ UNCHANGED <<hubVars, outcome, inflight, iter>>
    /\ UNCHANGED <<created, closed, connects, readsIssued, connFailed, dropped>>
    /\ UNCHANGED <<lost, pureVars, logVars>>

\* The hub write the handler awaits ends.
WriteEnds(t, res) ==
    /\ running = NoTask
    /\ pc[t] = "en_write"
    /\ writeResult' = [writeResult EXCEPT ![t] = res]
    /\ refreshCalls' = [refreshCalls EXCEPT ![t] = @ + RefreshRequests(res)]
    /\ IF res = "returned"
       THEN /\ pc' = [pc EXCEPT ![t] = "en_refresh"]
            /\ UNCHANGED <<running, outcome>>
       ELSE Finish(t, HandlerOutcome(res))
    /\ UNCHANGED <<hubVars, op, ret, batch, results, inflight, iter, calls>>
    /\ UNCHANGED histVars
    /\ UNCHANGED <<lost, overlap, pureVars, logVars, writeCalls>>

\* coordinator.async_request_refresh() ends.
RefreshEnds(t, res) ==
    /\ running = NoTask
    /\ pc[t] = "en_refresh"
    /\ Finish(t, HandlerOutcome(res))
    /\ UNCHANGED <<hubVars, op, ret, batch, results, inflight, iter, calls>>
    /\ UNCHANGED histVars
    /\ UNCHANGED auxVars

NextEntity ==
    \/ \E t \in Tasks, h \in EntityHandlers : CallEntity(t, h)
    \/ \E t \in Tasks, res \in AwaitResults : WriteEnds(t, res)
    \/ \E t \in Tasks, res \in AwaitResults : RefreshEnds(t, res)

SpecEntity == Init /\ [][NextEntity]_vars

\* ------------------------------------------------------- derived notions
UnitIds == {1, 2}

\* The handles of an endpoint that were constructed and never closed.
LiveHandles(e) == (1..created[e]) \ closed[e]

\* The support state a probe or read for unit "slave" consults for a
\* register: the flag of the catalog's definition object, whatever the unit.
SupportState(slave, r) == is_supported[r]

\* ------------------------------------------------------------ specification
\* One gateway with two units behind it: connection handling, probing and
\* shutdown under the default configuration.
PlantEndpoints == {"gw1"}
PlantDevices == {d \in DeviceInfos : d.ep \in PlantEndpoints}
ProbedCatalogs == {"parameter"}

Next ==
    \/ \E t \in Tasks, e \in PlantEndpoints : CallGetClient(t, e)
    \/ \E t \in Tasks, d \in PlantDevices, c \in ProbedCatalogs : CallProbe(t, d, c)
    \/ \E t \in Tasks : CallClose(t)
    \/ \E t \in Tasks : GcCheck(t)
    \/ \E t \in Tasks : GcResume(t)
    \/ \E t \in Tasks : GcLocked(t)
    \/ \E t \in Tasks, ok \in BOOLEAN : GcConnectDone(t, ok)
    \/ \E t \in Tasks : PrLock1(t)
    \/ \E t \in Tasks : PrResume1(t)
    \/ \E t \in Tasks : PrLock2(t)
    \/ \E t \in Tasks : PrResume2(t)
    \/ \E t \in Tasks, r \in RegisterNames, resp \in ProbeResponses : ReadDone(t, r, resp)
    \/ \E t \in Tasks, r \in RegisterNames : ReadRaises(t, r)
    \/ \E t \in Tasks : GatherDone(t)
    \/ \E t \in Tasks : GatherRaises(t)
    \/ \E t \in Tasks : CancelGetClient(t)
    \/ \E t \in Tasks : CancelBeforeBatch(t)
    \/ \E t \in Tasks : CancelBatch(t)
    \/ \E t \in Tasks : ClIter(t)
    \/ \E t \in Tasks : ClResume(t)
    \/ \E t \in Tasks : CancelClose(t)

Spec == Init /\ [][Next]_vars

\* The steps of a caller that the event loop and the transport bring about
\* by themselves: a coroutine that can run is run, a woken waiter is
\* resumed, and a connect or a read that is on the wire ends.
Progress(t) ==
    \/ GcCheck(t)
    \/ GcResume(t)
    \/ GcLocked(t)
    \/ \E ok \in BOOLEAN : GcConnectDone(t, ok)
    \/ PrLock1(t)
    \/ PrResume1(t)
    \/ PrLock2(t)
    \/ PrResume2(t)
    \/ \E r \in RegisterNames, resp \in ProbeResponses : ReadDone(t, r, resp)
    \/ \E r \in RegisterNames : ReadRaises(t, r)
    \/ GatherDone(t)
    \/ ClIter(t)
    \/ ClResume(t)

\* The same hub, probed for its running-info table, when every transport
\* operation terminates and the event loop runs what is ready; calls and
\* cancellations come as they like.
LiveCatalogs == {"running_info"}

NextLive ==
    \/ \E t \in Tasks, e \in PlantEndpoints : CallGetClient(t, e)
    \/ \E t \in Tasks, d \in PlantDevices, c \in LiveCatalogs : CallProbe(t, d, c)
    \/ \E t \in Tasks : CallClose(t)
    \/ \E t \in Tasks : Progress(t)
    \/ \E t \in Tasks : GatherRaises(t)
    \/ \E t \in Tasks : CancelGetClient(t)
    \/ \E t \in Tasks : CancelBeforeBatch(t)
    \/ \E t \in Tasks : CancelBatch(t)
    \/ \E t \in Tasks : CancelClose(t)

SpecLive ==
    Init /\ [][NextLive]_vars /\ \A t \in Tasks : SF_vars(Progress(t))

\* The same hub with async_connect among its calls.
NextConnect ==
    \/ \E t \in Tasks, e \in PlantEndpoints : CallConnect(t, e)
    \/ NextLive

SpecConnect == Init /\ [][NextConnect]_vars

\* Two gateways, one unit probed behind each: connections that drop,
\* shutdown, and calls on different endpoints that overlap.
NetDevices == {d \in DeviceInfos : d.slave = 1}
NetCatalogs == {"running_info"}

NextNet ==
    \/ \E t \in Tasks, e \in Endpoints : CallGetClient(t, e)
    \/ \E t \in Tasks, d \in NetDevices, c \in NetCatalogs : CallProbe(t, d, c)
    \/ \E t \in Tasks : CallClose(t)
    \/ \E e \in Endpoints : TransportDrop(e)
    \/ \E t \in Tasks : GcCheck(t)
    \/ \E t \in Tasks : GcResume(t)
    \/ \E t \in Tasks : GcLocked(t)
    \/ \E t \in Tasks, ok \in BOOLEAN : GcConnectDone(t, ok)
    \/ \E t \in Tasks : PrLock1(t)
    \/ \E t \in Tasks : PrResume1(t)
    \/ \E t \in Tasks : PrLock2(t)
    \/ \E t \in Tasks : PrResume2(t)
    \/ \E t \in Tasks, r \in RegisterNames, resp \in ProbeResponses : ReadDone(t, r, resp)
    \/ \E t \in Tasks, r \in RegisterNames : ReadRaises(t, r)
    \/ \E t \in Tasks : GatherDone(t)
    \/ \E t \in Tasks : GatherRaises(t)
    \/ \E t \in Tasks : ClIter(t)
    \/ \E t \in Tasks : ClResume(t)

SpecNet == Init /\ [][NextNet]_vars

\* The write path under every setting of the read-only flag.
InitWrite ==
    /\ InitHub
    /\ conf_read_only \in {"unset", "true", "false"}
    /\ fnArgs = NoCall
    /\ fnResult = NoCall

NextWrite ==
    \/ \E t \in Tasks, e \in Endpoints : CallWrite(t, e)
    \/ \E t \in Tasks, e \in Endpoints : CallGetClient(t, e)
    \/ \E t \in Tasks : GcCheck(t)
    \/ \E t \in Tasks : GcResume(t)
    \/ \E t \in Tasks : GcLocked(t)
    \/ \E t \in Tasks, ok \in BOOLEAN : GcConnectDone(t, ok)
    \/ \E t \in Tasks : WrLock(t)
    \/ \E t \in Tasks : WrResume(t)
    \/ \E t \in Tasks, ok \in BOOLEAN : WrDone(t, ok)

SpecWrite == InitWrite /\ [][NextWrite]_vars

\* ------------------------------------------------- the validation, alone
\* Register definitions as the catalog combines them: every data type with
\* every gain and every unit of the catalog ("deg" is the degree sign).
SampleTypes == {"u16", "s16", "u32", "s32", "u64", "string"}
SampleGains == {1, 10, 100, 1000}
SampleUnits ==
    { <<>>, <<"V">>, <<"A">>, <<"k", "W">>, <<"k", "W", "h">>, <<"deg", "C">>,
      <<"%">>, <<"k", "V", "a", "r">>, <<"k", "V", "A">>, <<"H", "z">>,
      <<"s">>, <<"m", "i", "n">> }
SampleDefs ==
    { [address |-> 30000, count |-> 1, register_type |-> "ro",
       data_type |-> d, gain |-> g, unit |-> u] :
          d \in SampleTypes, g \in SampleGains, u \in SampleUnits }

\* Responses of one, two and four words around the bounds of the classes.
SampleWords1 ==
    {0, 1, 50, 51, 120, 121, 200, 201, 1000, 1001, 12000, 12001,
     32768, 65416, 65485, 65486, 65535}
SampleWords2 == {0, 1, 1000, 15258, 32768, 51712, 65535}
SampleResponses ==
    {NoneResponse, ErrorResponse, OkResponse(<<>>)}
    \cup {OkResponse(<<a>>) : a \in SampleWords1}
    \cup {OkResponse(<<a, b>>) : a, b \in SampleWords2}
    \cup {OkResponse(<<a, b, c, d>>) : a, b \in {0, 1}, c, d \in SampleWords2}

NotCalled == [done |-> FALSE]

InitValidate ==
    /\ InitHub
    /\ conf_read_only = "unset"
    /\ fnArgs \in [register_def : SampleDefs, result : SampleResponses]
    /\ fnResult = NotCalled

\* _validate_register_response(result, register_def) is called.
Validate ==
    /\ ~fnResult.done
    /\ fnResult' =
           [done |-> TRUE,
            is_supported |->
                validate_register_response(fnArgs.result, fnArgs.register_def)]
    /\ UNCHANGED <<hubVars, taskVars, histVars, lost, overlap, fnArgs, logVars, entVars>>

NextValidate == Validate

SpecValidate == InitValidate /\ [][NextValidate]_vars

\* ------------------------------------------------------- the codec, alone
\* Integers of up to four words whose words lie at the ends and in the
\* middle of the 16-bit range.
SampleWords == {0, 1, 32767, 32768, 65535}
SampleInts ==
    {PyNat(<<a, b, c, d>>) : a, b, c, d \in SampleWords}
    \cup {PyNeg(<<a, b, c, d>>) : a, b, c, d \in SampleWords}

IntegerTypes == {"u16", "s16", "u32", "s32", "u64"}

\* The values a data type can represent.
Representable(data_type, value) ==
    LET n == Len(value.mag)
    IN  CASE data_type = "u16" -> ~value.neg /\ n <= 1
          [] data_type = "s16" ->
                 /\ n <= 1
                 /\ n = 1 => value.mag[1] <= (IF value.neg THEN 32768 ELSE 32767)
          [] data_type = "u32" -> ~value.neg /\ n <= 2
          [] data_type = "s32" ->
                 /\ n <= 2
                 /\ n = 2 =>
                        \/ value.mag[1] < 32768
                        \/ value.neg /\ value.mag = <<32768, 0>>
          [] data_type = "u64" -> ~value.neg /\ n <= 4

InitCodec ==
    /\ InitHub
    /\ conf_read_only = "unset"
    /\ fnArgs \in {a \in [data_type : IntegerTypes, value : SampleInts] :
                      Representable(a.data_type, a.value)}
    /\ fnResult = NotCalled

\* The value is packed by the builder and the words are converted back.
EncodeDecode ==
    /\ ~fnResult.done
    /\ fnResult' =
           LET registers == to_registers(fnArgs.data_type, fnArgs.value)
           IN  [done |-> TRUE,
                registers |-> registers,
                value |-> convert_from_registers(registers, fnArgs.data_type)]
    /\ UNCHANGED <<hubVars, taskVars, histVars, lost, overlap, fnArgs, logVars, entVars>>

NextCodec == EncodeDecode

SpecCodec == InitCodec /\ [][NextCodec]_vars

\* The builder is also handed values its data type cannot represent: the
\* sampled integers and the two at the 16-bit signed boundary, 32769 apart.
BoundaryInts ==
    SampleInts \cup {PyNat(<<32769>>), PyNeg(<<32769>>)}

InitEncode ==
    /\ InitHub
    /\ conf_read_only = "unset"
    /\ fnArgs \in [data_type : IntegerTypes, value : BoundaryInts]
    /\ fnResult = NotCalled

SpecEncode == InitEncode /\ [][NextCodec]_vars

\* Strings of up to MaxChars characters drawn from the ends and the middle
\* of the non-NUL ASCII range.
MaxChars == 4
SampleChars == {1, 65, 66, 127}
SampleStrings ==
    UNION {[1..n -> SampleChars] : n \in 0..MaxChars}

InitString ==
    /\ InitHub
    /\ conf_read_only = "unset"
    /\ fnArgs \in [data_type : {"string"},
                   value : {PyStr(chars) : chars \in SampleStrings}]
    /\ fnResult = NotCalled

SpecString == InitString /\ [][NextCodec]_vars

\* Responses of one, two and four words are converted as every integer
\* data type.
SampleRegisters ==
    UNION {[1..n -> SampleWords] : n \in {1, 2, 4}}

InitDecode ==
    /\ InitHub
    /\ conf_read_only = "unset"
    /\ fnArgs \in [data_type : IntegerTypes, registers : SampleRegisters]
    /\ fnResult = NotCalled

Decode ==
    /\ ~fnResult.done
    /\ fnResult' =
           [done |-> TRUE,
            value |-> convert_from_registers(fnArgs.registers,
                                             fnArgs.data_type)]
    /\ UNCHANGED <<hubVars, taskVars, histVars, lost, overlap, fnArgs, logVars, entVars>>

NextDecode == Decode

SpecDecode == InitDecode /\ [][NextDecode]_vars

\* ----------------------------------------------------- the catalog, alone
\* One definition of the catalog is probed: the read request that
\* _probe_single_register makes for it.
InitCatalog ==
    /\ InitHub
    /\ conf_read_only = "unset"
    /\ fnArgs \in AllRegisterDefinitions
    /\ fnResult = NotCalled

ReadRequest ==
    /\ ~fnResult.done
    /\ fnResult' =
           IF fnArgs.register_type = "ro"
           THEN [done |-> TRUE, call |-> "read_input_registers",
                 address |-> fnArgs.address, count |-> fnArgs.count]
           ELSE IF fnArgs.register_type = "rw"
           THEN [done |-> TRUE, call |-> "read_holding_registers",
                 address |-> fnArgs.address, count |-> fnArgs.count]
           ELSE [done |-> TRUE, call |-> "none",
                 address |-> fnArgs.address, count |-> 0]
    /\ UNCHANGED <<hubVars, taskVars, histVars, lost, overlap, fnArgs, logVars, entVars>>

NextCatalog == ReadRequest

SpecCatalog == InitCatalog /\ [][NextCatalog]_vars

\* ------------------------------------------------------------------ claims
ProbeRegisters(t) == CatalogRegisters(op[t].regs)

\* A probe's batch ends by the handler of line 426 (the gather step raised).
BatchErrorStep(t) ==
    pc[t] = "pr_gather" /\ pc'[t] = "idle" /\ outcome'[t] = "returned_after_error"

\* A probe's batch ends normally: gather returned and the results were processed.
BatchDoneStep(t) ==
    pc[t] = "pr_gather" /\ pc'[t] = "idle" /\ outcome'[t] = "returned"

\* A probe is cancelled inside its batch (waiting for the batch's lock or in
\* gather): every other way out of these two places is named above.
BatchCancelStep(t) ==
    /\ pc[t] \in {"pr_wait2", "pr_gather"}
    /\ pc'[t] = "idle"
    /\ ~BatchErrorStep(t)
    /\ ~BatchDoneStep(t)

\* Every register of the set that is still Unknown becomes Unsupported and
\* every other register keeps its state.
UnknownMarkedUnsupported(t) ==
    \A r \in RegisterNames :
        is_supported'[r] =
            IF r \in ProbeRegisters(t) /\ is_supported[r] = "None"
            THEN "False" ELSE is_supported[r]

\* C1: while no connect() on an endpoint has failed or been abandoned and
\* the endpoint was never marked disconnected, all _get_client calls on it,
\* however they overlap, have created one client at most and made one
\* connect() attempt at most, and each call that returned, returned that
\* client.
C1_SingleConnect ==
    \A e \in Endpoints :
        (~connFailed[e] /\ ~dropped[e]) =>
            /\ created[e] <= 1
            /\ connects[e] <= 1
            /\ \A t \in Tasks :
                   (op[t].ep = e /\ ret[t] # 0) =>
                       (ret[t] = 1 /\ ret[t] = clients[e])

\* Two overlapping _get_client calls, one of which waited for the lock, have
\* both returned the only client.
C1_Witness ==
    \E t1, t2 \in Tasks :
        /\ t1 # t2
        /\ op[t1].name = "get_client" /\ op[t2].name = "get_client"
        /\ op[t1].ep = op[t2].ep
        /\ pc[t1] = "idle" /\ pc[t2] = "idle"
        /\ ret[t1] = 1 /\ ret[t2] = 1
        /\ waited[t2] /\ ~waited[t1]
        /\ created[op[t1].ep] = 1 /\ connects[op[t1].ep] = 1

\* C2: a register's support state, once Supported or Unsupported, is never
\* changed again by any step.
C2_SupportNeverReverts ==
    [][\A r \in RegisterNames :
          is_supported[r] # "None" => is_supported'[r] = is_supported[r]]_vars

\* C3: every endpoint has at most one handle that was created and not closed.
C3_OneLiveHandle ==
    \A e \in Endpoints : Cardinality(LiveHandles(e)) <= 1

\* C4: the step that ends a probe for one unit leaves the support state used
\* for every other unit unchanged.
C4_PerDeviceSupport ==
    [][\A t \in Tasks :
          (op[t].name = "probe" /\ pc[t] # "idle" /\ pc'[t] = "idle") =>
              \A u \in UnitIds \ {op[t].slave}, r \in RegisterNames :
                  SupportState(u, r)' = SupportState(u, r)]_vars

\* C5: a probe whose batch is in progress (its reads issued, not all
\* answered) holds the endpoint's lock, so the batches of two probes on one
\* endpoint never overlap.
C5_ProbeReadsUnderLock ==
    /\ \A t \in Tasks :
           (pc[t] = "pr_gather" \/ inflight[t] # {}) =>
               locks[op[t].ep].holder = t
    /\ \A t1, t2 \in Tasks :
           (t1 # t2 /\ op[t1].ep = op[t2].ep) =>
               ~(inflight[t1] # {} /\ inflight[t2] # {})

\* A probe has reads on the wire while another probe of the same endpoint
\* waits for the lock.
C5_Witness ==
    \E t1, t2 \in Tasks :
        /\ t1 # t2
        /\ op[t1].ep = op[t2].ep
        /\ inflight[t1] # {}
        /\ pc[t2] \in {"pr_wait1", "pr_wait2"}

\* C6: with read_only set, or not set at all (the default), a write is
\* rejected at once and has made no transport call.
C6_ReadOnlyGate ==
    \A t \in Tasks :
        (op[t].name = "write" /\ conf_read_only \in {"unset", "true"}) =>
            /\ pc[t] = "idle"
            /\ outcome[t] = "WriteRejected"
            /\ ioCalls[t] = 0
            /\ ret[t] = 0

\* A write was rejected under the default configuration, after the endpoint
\* had been connected by another call.
C6_Witness ==
    \E t \in Tasks :
        /\ conf_read_only = "unset"
        /\ op[t].name = "write"
        /\ outcome[t] = "WriteRejected"
        /\ ioCalls[t] = 0
        /\ connects[op[t].ep] > 0

\* C7 as stated: every batch-level failure, cancellation included, marks
\* every register of the batch Unsupported and flags the connection suspect.
C7_Original ==
    [][\A t \in Tasks :
          (BatchErrorStep(t) \/ BatchCancelStep(t)) =>
              /\ \A r \in batch[t] : is_supported'[r] = "False"
              /\ ~connected'[op[t].ep]]_vars

\* C7 amended: when the gather step raises, every register of the set that
\* is still Unknown becomes Unsupported and the endpoint is marked not
\* connected, so that _get_client needs a new client; a cancellation leaves
\* the connection flag as it was.
C7_BatchFailure ==
    [][\A t \in Tasks :
          /\ BatchErrorStep(t) =>
                 /\ UnknownMarkedUnsupported(t)
                 /\ ~connected'[op[t].ep]
                 /\ NeedsClient(op[t].ep)'
          /\ BatchCancelStep(t) =>
                 connected'[op[t].ep] = connected[op[t].ep]]_vars

\* A probe ended by the batch error handler: registers Unsupported, the
\* endpoint not connected though its client is still in the table.
C7_Witness ==
    \E t \in Tasks :
        /\ outcome[t] = "returned_after_error"
        /\ pc[t] = "idle"
        /\ ~connected[op[t].ep]
        /\ clients[op[t].ep] # 0
        /\ \E r \in batch[t] : is_supported[r] = "False"

\* C8 as stated: a cancellation inside the batch leaves the unclassified
\* registers Unknown and propagates.
C8_Original ==
    [][\A t \in Tasks :
          BatchCancelStep(t) =>
              /\ \A r \in ProbeRegisters(t) :
                     is_supported[r] = "None" => is_supported'[r] = "None"
              /\ outcome'[t] = "CancelledError"]_vars

\* C8 amended: a cancellation inside the batch marks every register of the
\* set that is still Unknown Unsupported, gives up the lock, and propagates
\* to the caller.
C8_CancelMarksUnsupported ==
    [][\A t \in Tasks :
          BatchCancelStep(t) =>
              /\ UnknownMarkedUnsupported(t)
              /\ outcome'[t] = "CancelledError"
              /\ locks'[op[t].ep].holder # t]_vars

\* A probe was cancelled inside its batch with reads on the wire.
C8_Witness ==
    \E t \in Tasks :
        /\ outcome[t] = "CancelledError"
        /\ op[t].name = "probe"
        /\ pc[t] = "idle"
        /\ \E r \in batch[t] :
               results[t][r] = "pending" /\ is_supported[r] = "False"

\* C9: when a batch ends normally, a register whose task ended with an
\* exception keeps its state (Unknown stays Unknown), every other register
\* of the batch takes the support flag its own task returned; and a probe's
\* batch is made of exactly the registers of the set that are Unknown.
C9_TaskExceptionLeavesUnknown ==
    [][\A t \in Tasks :
          /\ BatchDoneStep(t) =>
                 \A r \in batch[t] :
                     is_supported'[r] =
                         IF results[t][r] = "exc" THEN is_supported[r]
                         ELSE results[t][r]
          /\ (pc[t] # "pr_lock2" /\ pc'[t] = "pr_lock2") =>
                 batch'[t] = {r \in ProbeRegisters(t) : is_supported[r] = "None"}
      ]_vars

\* A batch ended with one register's task failed and still Unknown, and
\* another register classified Supported from its own answer.
C9_Witness ==
    \E t \in Tasks :
        /\ outcome[t] = "returned"
        /\ op[t].name = "probe"
        /\ pc[t] = "idle"
        /\ \E r1, r2 \in batch[t] :
               /\ results[t][r1] = "exc" /\ is_supported[r1] = "None"
               /\ results[t][r2] = "True" /\ is_supported[r2] = "True"

WriteOnlyRegisters == {r \in RegisterNames : RegisterDefs[r].register_type = "wo"}

\* C10 as stated: no read is issued for a WriteOnly register and it is
\* never set to Unsupported.
C10_Original ==
    \A r \in WriteOnlyRegisters :
        r \notin readsIssued /\ is_supported[r] # "False"

\* C10 amended: no read is issued for a WriteOnly register and it is never
\* set to Supported; a probe of its set that returns normally leaves it
\* Unsupported.
C10_WriteOnlyUnsupported ==
    \A r \in WriteOnlyRegisters :
        /\ r \notin readsIssued
        /\ is_supported[r] # "True"
        /\ \A t \in Tasks :
               ( /\ op[t].name = "probe" /\ pc[t] = "idle"
                 /\ outcome[t] = "returned" /\ r \in ProbeRegisters(t) ) =>
                   is_supported[r] = "False"

\* A batch that held a WriteOnly register has ended normally: the register
\* is Unsupported and was not read.
C10_Witness ==
    \E t \in Tasks, r \in WriteOnlyRegisters :
        /\ outcome[t] = "returned"
        /\ pc[t] = "idle"
        /\ r \in batch[t]
        /\ results[t][r] = "False"
        /\ is_supported[r] = "False"
        /\ r \notin readsIssued

\* C11: a probe in progress whose register set has no Unknown register makes
\* no transport call (no connect, no read), whatever the connection state.
C11_EmptyProbeNoIO ==
    [][\A t \in Tasks :
          ( /\ op[t].name = "probe"
            /\ pc[t] # "idle"
            /\ Unknown(ProbeRegisters(t)) = {} ) =>
              ioCalls'[t] = ioCalls[t]]_vars

\* A step of _get_client ends the call with the connection error.
ConnectFailStep(t) ==
    pc[t] = "gc_connecting" /\ pc'[t] = "idle" /\ outcome'[t] = "SigenergyModbusError"

\* C12: a connect() that fails ends the call with SigenergyModbusError after
\* one connect() attempt of that call, with the endpoint not connected and
\* its lock given up; a later _get_client that finds the endpoint not
\* connected makes a new connect() attempt, and a connect() that succeeds
\* marks the endpoint connected and hands its client to the caller.
C12_FailedConnect ==
    [][\A t \in Tasks :
          LET e == op[t].ep
          IN  /\ ConnectFailStep(t) =>
                     /\ ioCalls[t] = 1
                     /\ ioCalls'[t] = 1
                     /\ ~connected'[e]
                     /\ locks'[e].holder # t
                     /\ NeedsClient(e)'
              /\ (pc[t] = "gc_connecting" /\ pc'[t] # "gc_connecting"
                  /\ ~ConnectFailStep(t) /\ outcome'[t] # "CancelledError") =>
                     /\ connected'[e]
                     /\ ret'[t] = clients'[e]
                     /\ ret'[t] \notin closed'[e]
              /\ (pc[t] = "gc_locked" /\ connFailed[e] /\ ~connected[e]) =>
                     /\ connects'[e] = connects[e] + 1
                     /\ pc'[t] = "gc_connecting"]_vars

\* A _get_client failed to connect and a later one on the same endpoint
\* connected with a second attempt.
C12_Witness ==
    \E t1, t2 \in Tasks :
        /\ op[t1].ep = op[t2].ep
        /\ pc[t1] = "idle" /\ outcome[t1] = "SigenergyModbusError"
        /\ pc[t2] = "idle" /\ outcome[t2] = "returned"
        /\ op[t2].name = "get_client"
        /\ connects[op[t1].ep] = 2
        /\ connected[op[t1].ep]
        /\ ret[t2] = clients[op[t1].ep]

\* A step of async_close by caller t, and the step that ends it normally.
CloseStep(t) == pc[t] \in CloseStates /\ iter'[t] # iter[t]
CloseDoneStep(t) ==
    pc[t] = "cl_iter" /\ pc'[t] = "idle" /\ outcome'[t] = "returned"

\* The step by which _get_client hands a client to its caller.
ReturnStep(t) == pc[t] \in AcquireStates /\ ret'[t] # ret[t]

\* C13: a step of async_close that takes a connected endpoint closes its
\* client and marks it not connected; when async_close returns and no call
\* that acquires a client ran meanwhile, no endpoint is marked connected;
\* _get_client never hands out a client that was closed: finding the
\* closed one under the lock it creates a new client and connects it.
C13_CloseThenReconnect ==
    [][\A t \in Tasks :
          /\ CloseStep(t) =>
                 \A e \in Endpoints :
                     (connected[e] /\ ~connected'[e]) =>
                         (clients[e] \in closed'[e] /\ NeedsClient(e)')
          /\ (CloseDoneStep(t) /\ ~overlap[t]) =>
                 \A e \in Endpoints : ~connected'[e]
          /\ ReturnStep(t) =>
                 (ret'[t] = clients'[op[t].ep] /\ ret'[t] \notin closed'[op[t].ep])
          /\ (pc[t] = "gc_locked" /\ clients[op[t].ep] \in closed[op[t].ep]) =>
                 /\ created'[op[t].ep] = created[op[t].ep] + 1
                 /\ connects'[op[t].ep] = connects[op[t].ep] + 1
                 /\ clients'[op[t].ep] \notin closed'[op[t].ep]]_vars

\* async_close has closed the connected client of an endpoint, and a later
\* _get_client on that endpoint has connected and returned a second one.
C13_Witness ==
    \E t1, t2 \in Tasks, e \in Endpoints :
        /\ op[t1].name = "close" /\ pc[t1] = "idle" /\ outcome[t1] = "returned"
        /\ ~overlap[t1]
        /\ closed[e] = {1}
        /\ op[t2].name = "get_client" /\ op[t2].ep = e
        /\ pc[t2] = "idle" /\ outcome[t2] = "returned"
        /\ ret[t2] = 2 /\ clients[e] = 2 /\ connected[e]

\* C14: _get_client never hands out a client whose connection has dropped.
C14_ReconnectAfterDrop ==
    [][\A t \in Tasks :
          ReturnStep(t) => ret'[t] \notin lost'[op[t].ep]]_vars

\* C15: a read is issued only for a register whose support state is Unknown.
C15_ProbeOnce ==
    [][\A t \in Tasks, r \in RegisterNames :
          (r \in inflight'[t] /\ r \notin inflight[t]) =>
              is_supported[r] = "None"]_vars

\* Where a caller is while it waits in the queue of a lock, and while it is
\* suspended in a transport call with a lock held.
WaitStates == {"gc_wait", "pr_wait1", "pr_wait2", "cl_wait", "wr_wait"}
TransportStates == {"gc_connecting", "pr_gather", "wr_io"}

\* The endpoint whose lock a caller is using.
EndpointOf(t) ==
    IF op[t].name = "close" THEN clientKeys[iter[t].idx] ELSE op[t].ep

\* C16: the lock of an endpoint is held and waited for only by calls on
\* that endpoint; a call starts to wait only when the lock of its own
\* endpoint is taken or has waiters, whatever the state of the other
\* endpoint's lock; and a call suspended in the queue of a lock or in a
\* transport call never holds the event loop.
C16_EndpointsIndependent ==
    [][\A t \in Tasks :
          /\ \A b \in Endpoints :
                 ( \/ locks'[b].holder = t
                   \/ \E i \in 1..Len(locks'[b].waiters) : locks'[b].waiters[i] = t )
                     => EndpointOf(t)' = b
          /\ (pc[t] \notin WaitStates /\ pc'[t] \in WaitStates) =>
                 ~CanAcquire(locks[EndpointOf(t)'])
          /\ pc'[t] \in WaitStates \cup TransportStates => running' # t]_vars

\* A call holds the lock of one endpoint, suspended in its transport, while
\* a call on the other endpoint that started later holds that one's lock.
C16_Witness ==
    \E t1, t2 \in Tasks :
        /\ t1 # t2
        /\ op[t1].ep = "gw1" /\ op[t2].ep = "gw2"
        /\ pc[t1] \in TransportStates /\ pc[t2] \in TransportStates
        /\ locks["gw1"].holder = t1
        /\ locks["gw2"].holder = t2

\* C17: a response that is missing, is an error response, or has no
\* registers is classified Unsupported, whatever the register's data type,
\* gain and unit.
C17_FailureUnsupported ==
    ( /\ fnResult.done
      /\ \/ fnArgs.result.kind = "none"
         \/ fnArgs.result.kind = "error"
         \/ fnArgs.result.registers = <<>> ) =>
        ~fnResult.is_supported

\* An energy register of two words got a response without registers.
C17_Witness ==
    /\ fnResult.done
    /\ fnArgs.result = OkResponse(<<>>)
    /\ fnArgs.register_def.data_type = "u32"
    /\ fnArgs.register_def.unit = <<"k", "W", "h">>
    /\ ~fnResult.is_supported

\* -below <= raw / gain <= above
ValueWithin(raw, gain, below, above) ==
    IF raw.neg THEN MagLeq(raw.mag, gain, below) ELSE MagLeq(raw.mag, gain, above)

\* The response carries registers of a numeric register.
NumericAnswer ==
    /\ fnResult.done
    /\ fnArgs.register_def.data_type # "string"
    /\ fnArgs.result.kind = "ok"
    /\ fnArgs.result.registers # <<>>

C19_StringAllZero ==
    ( /\ fnResult.done
      /\ fnArgs.register_def.data_type = "string"
      /\ fnArgs.result.kind = "ok"
      /\ fnArgs.result.registers # <<>> ) =>
        ( ~fnResult.is_supported <=>
              \A i \in 1..Len(fnArgs.result.registers) :
                  fnArgs.result.registers[i] = 0 )

\* A string whose response has a zero word and a non-zero word is Supported.
C19_Witness ==
    /\ fnResult.done
    /\ fnArgs.register_def.data_type = "string"
    /\ fnArgs.result.kind = "ok"
    /\ \E i, j \in 1..Len(fnArgs.result.registers) :
           fnArgs.result.registers[i] = 0 /\ fnArgs.result.registers[j] # 0
    /\ fnResult.is_supported

C21_EncodeRejects ==
    (fnResult.done /\ ~Representable(fnArgs.data_type, fnArgs.value)) =>
        fnResult.registers = <<>>

\* C22: a string of non-NUL single-byte characters that is encoded, two
\* bytes to a word with the first byte high and an odd length padded with a
\* zero low byte, decodes to itself; the empty string becomes words that are
\* all zero and decodes to the empty string.
C22_StringRoundTrip ==
    fnResult.done =>
        /\ \A i \in 1..Len(fnResult.registers) :
               /\ (fnResult.registers[i] \div 256) = fnArgs.value.str[2 * i - 1]
               /\ (fnResult.registers[i] % 256) =
                      (IF 2 * i <= Len(fnArgs.value.str)
                       THEN fnArgs.value.str[2 * i] ELSE 0)
        /\ fnArgs.value.str = <<>> =>
               \A i \in 1..Len(fnResult.registers) : fnResult.registers[i] = 0
        /\ fnResult.value = fnArgs.value

\* The number of words of an integer data type.
WordsOf(data_type) ==
    CASE data_type \in {"u16", "s16"} -> 1
      [] data_type \in {"u32", "s32"} -> 2
      [] data_type = "u64" -> 4

\* C23: integer decode is big-endian and two's complement: the value lies
\* in the range of the data type (0..2^16-1, -2^15..2^15-1, 0..2^32-1,
\* -2^31..2^31-1, 0..2^64-1) and word k of its two's complement form,
\* counted from the least significant, is the k-th word from the end of
\* the response, so U32 is (words[0] << 16) | words[1] and U64 the same
\* over four words.
C23_BigEndianDecode ==
    (fnResult.done /\ Len(fnArgs.registers) = WordsOf(fnArgs.data_type)) =>
        /\ Representable(fnArgs.data_type, fnResult.value)
        /\ \A k \in 0..(WordsOf(fnArgs.data_type) - 1) :
               Word(fnResult.value, k) =
                   fnArgs.registers[WordsOf(fnArgs.data_type) - k]

\* 0xFFFF 0xFFFF was decoded as S32 and gave -1; 0x0001 0x8000 as U32 gave
\* 2^16 + 2^15 in another run.
C23_Witness ==
    /\ fnResult.done
    /\ \/ /\ fnArgs = [data_type |-> "s32", registers |-> <<65535, 65535>>]
          /\ fnResult.value = [neg |-> TRUE, mag |-> <<1>>]
       \/ /\ fnArgs = [data_type |-> "u32", registers |-> <<1, 32768>>]
          /\ fnResult.value = [neg |-> FALSE, mag |-> <<1, 32768>>]

\* C24: every register definition of every catalog table has the count its
\* data type needs, 1 word for U16 and S16, 2 for U32 and S32, 4 for U64
\* and at least 1 for a string, and a gain greater than 0; a read of the
\* definition asks for that many words.
C24_CatalogInvariant ==
    /\ fnArgs.table \in CatalogTables
    /\ fnArgs.gain > 0
    /\ IF fnArgs.data_type = "string"
       THEN fnArgs.count >= 1
       ELSE /\ fnArgs.data_type \in IntegerTypes
            /\ fnArgs.count = WordsOf(fnArgs.data_type)
    /\ (fnResult.done /\ fnResult.call # "none") =>
           fnResult.count = fnArgs.count

\* A read was built for a U64 definition, for a string definition or for a
\* definition of the DC charger parameter table.
C24_Witness ==
    /\ fnResult.done
    /\ fnResult.call # "none"
    /\ \/ fnArgs.data_type = "u64" /\ fnResult.count = 4
       \/ fnArgs.data_type = "string" /\ fnResult.count = 15
       \/ fnArgs.table = "DC_CHARGER_PARAMETER_REGISTERS"

\* C25: when every task of a probe batch has finished, the level and the
\* propagate flag of the pymodbus logger are what they were before the
\* batch started, whatever the order the reads completed in.
C25_LoggingRestored ==
    \A t \in Tasks :
        (pc[t] = "pr_gather" /\ inflight[t] = {}) =>
            pymodbus_logger = loggerBefore[t]

\* A caller starts to take a lock in this step: it gets it or joins its queue.
TakesLock(t, e) ==
    \/ locks[e].holder # t /\ locks'[e].holder = t
    \/ /\ \A i \in 1..Len(locks[e].waiters) : locks[e].waiters[i] # t
       /\ \E i \in 1..Len(locks'[e].waiters) : locks'[e].waiters[i] = t

\* The caller holds no lock and waits for none.
HoldsNothing(t) ==
    \A e \in Endpoints :
        /\ locks[e].holder # t
        /\ \A i \in 1..Len(locks[e].waiters) : locks[e].waiters[i] # t

\* C26: no call starts to take a lock of an endpoint while it holds a lock;
\* an idle caller, whose call has returned, failed or been cancelled, holds
\* no lock and is in no queue; and when transport operations terminate, a
\* caller that waits for a lock gets out of the queue.
C26_LockNotLeaked ==
    /\ [][\A t \in Tasks, e \in Endpoints :
             TakesLock(t, e) => \A f \in Endpoints : locks[f].holder # t]_vars
    /\ [](\A t \in Tasks : pc[t] = "idle" => HoldsNothing(t))
    /\ \A t \in Tasks : (pc[t] \in WaitStates) ~> (pc[t] \notin WaitStates)

\* A call has finished or been cancelled after holding the lock while
\* another caller is in the lock's queue, about to be resumed.
C26_Witness ==
    \E t, u \in Tasks :
        /\ pc[t] = "idle" /\ outcome[t] # "none"
        /\ pc[u] \in WaitStates
        /\ locks[EndpointOf(u)].woken
        /\ locks[EndpointOf(u)].holder = NoTask

\* A probe is called with device info that has no slave id.
ProbeWithoutSlaveStep(t) ==
    /\ pc[t] = "idle"
    /\ calls' = calls + 1
    /\ op'[t].name = "probe"
    /\ op'[t].slave = NoSlave

\* A step of caller t inside the _get_client of its probe.
ProbeAcquireStep(t) ==
    op[t].name = "probe" /\ pc[t] \in AcquireStates /\ pc'[t] # pc[t]

\* C27: a probe that fails before its batch starts hands the error to its
\* caller, issues no read and leaves the support state of every register
\* as it was: with no slave id in the device info it raises ValueError
\* before any connect, and when _get_client cannot connect it raises the
\* connection error.
C27_ProbeFailsEarly ==
    [][\A t \in Tasks :
          /\ ProbeWithoutSlaveStep(t) =>
                 /\ pc'[t] = "idle"
                 /\ outcome'[t] = "ValueError"
                 /\ ioCalls'[t] = 0
                 /\ connects' = connects
                 /\ created' = created
                 /\ readsIssued' = readsIssued
                 /\ is_supported' = is_supported
                 /\ locks' = locks
          /\ ProbeAcquireStep(t) =>
                 /\ readsIssued' = readsIssued
                 /\ is_supported' = is_supported
                 /\ batch'[t] = {} /\ inflight'[t] = {}
          /\ (ProbeAcquireStep(t) /\ ConnectFailStep(t)) =>
                 /\ outcome'[t] = "SigenergyModbusError"
                 /\ results'[t] = NoResults
                 /\ \A r \in ProbeRegisters(t) : r \notin inflight'[t]]_vars

\* One probe has ended with ValueError and made no transport call, another
\* with the connection error while registers of its set are still unknown.
C27_Witness ==
    \E t, u \in Tasks :
        /\ op[t].name = "probe" /\ pc[t] = "idle"
        /\ outcome[t] = "ValueError" /\ ioCalls[t] = 0
        /\ op[u].name = "probe" /\ pc[u] = "idle"
        /\ outcome[u] = "SigenergyModbusError" /\ batch[u] = {}
        /\ Unknown(ProbeRegisters(u)) # {}

\* C28: when async_close has completed, with no other call of the hub in
\* progress during it or at its end, every client the hub ever created has
\* been closed, a client of an endpoint flagged not connected and a client
\* that was replaced in _clients included.
C28_CloseClosesAll ==
    [][\A t \in Tasks :
          (/\ CloseDoneStep(t)
           /\ ~overlap[t]
           /\ \A u \in Tasks \ {t} : pc[u] = "idle") =>
              \A e \in Endpoints : LiveHandles(e)' = {}]_vars

\* C29: whenever _get_client returns, the endpoint is flagged connected at
\* that moment and the client returned is the one stored in _clients; so
\* async_connect ends by returning, or with the error or the cancellation
\* of its _get_client, and never with its own error.
C29_ReturnMeansConnected ==
    /\ [][\A t \in Tasks :
             ReturnStep(t) =>
                 /\ connected'[op[t].ep]
                 /\ ret'[t] # 0
                 /\ ret'[t] = clients'[op[t].ep]]_vars
    /\ [](\A t \in Tasks :
             /\ outcome[t] # EstablishError
             /\ (op[t].name = "connect" /\ pc[t] = "idle") =>
                    outcome[t] \in {"none", "returned", "SigenergyModbusError",
                                    "CancelledError"})

\* One async_connect has returned after waiting for the lock, another has
\* ended with the connection error of _get_client.
C29_Witness ==
    \E t, u \in Tasks :
        /\ op[t].name = "connect" /\ pc[t] = "idle"
        /\ outcome[t] = "returned" /\ waited[t]
        /\ ret[t] = clients[op[t].ep]
        /\ op[u].name = "connect" /\ pc[u] = "idle"
        /\ outcome[u] = "SigenergyModbusError"

\* C30: in the write-capable entities a coordinator refresh is requested
\* only after the hub write has completed without error; when the write
\* raises SigenergyModbusError no refresh is requested, the write is not
\* tried again and the handler returns to its caller without the error.
C30_RefreshAfterWrite ==
    \A t \in Tasks :
        op[t].name \in EntityHandlers =>
            /\ refreshCalls[t] > 0 => writeResult[t] = "returned"
            /\ writeCalls[t] = 1
            /\ writeResult[t] = "SigenergyModbusError" =>
                   /\ pc[t] = "idle"
                   /\ refreshCalls[t] = 0
                   /\ outcome[t] = "returned"

\* A switch was turned on and its write raised SigenergyModbusError, and a
\* number was set, its write returned and the refresh was requested.
C30_Witness ==
    \E t, u \in Tasks :
        /\ op[t].name = "async_turn_on" /\ pc[t] = "idle"
        /\ writeResult[t] = "SigenergyModbusError"
        /\ op[u].name = "async_set_native_value" /\ pc[u] = "idle"
        /\ writeResult[u] = "returned" /\ refreshCalls[u] = 1
        /\ outcome[u] = "returned"

====
